---- MODULE Spec2Model ----
(***************************************************************************)
(* Storage and index core of BusTub: the B+Tree index (pages, Insert,      *)
(* Remove, GetValue, iterator) and the buffer pool manager with its LRU-K  *)
(* replacer and disk scheduler.                                            *)
(*                                                                         *)
(* Arrays of the C++ code are 0-based; the sequences below are 1-based, so *)
(* slot i of key_array_ is keys[i + 1].  A page keeps exactly GetSize()    *)
(* slots: the code never reads a slot at or beyond GetSize() whose value   *)
(* reaches a slot below GetSize().                                         *)
(***************************************************************************)
EXTENDS Integers, Sequences, FiniteSets, TLC

VARIABLES
    pages,              \* B+Tree: page id -> page image (as seen through page guards)
    root_page_id_,      \* B+Tree: BPlusTreeHeaderPage::root_page_id_
    tree_next_page_id_, \* B+Tree: the pool's next_page_id_ counter as the tree sees it
    ref,                \* B+Tree: reference map, key -> the values stored for it (history variable)
    hist,               \* B+Tree: the calls so far (history variable): "ins" Inserts of
                        \*         new keys only, "rem" these followed by Removes of stored
                        \*         keys, "rema" by Removes of any keys, "mix" Inserts of new
                        \*         keys and Removes of stored keys in any order, "mixa" any
    it,                 \* B+Tree: the IndexIterator of the running scan, or NoIter
    ndebug,             \* the build: TRUE when BUSTUB_ASSERT compiles to nothing (NDEBUG)
    fault,              \* "none", or how the running call ended the run: "abort" (a failed
                        \* assertion), "deadlock" (it waits for a latch its own thread
                        \* holds), "ub" (it read outside an array)
    bpm_,               \* buffer pool: the BufferPoolManager with its frames, replacer,
                        \*         scheduler queue and disk
    thr,                \* buffer pool: per client thread, where it is in fetching a page
                        \*         and the page guard it holds
    lastw,              \* buffer pool: page id -> the image last written to the page
                        \*         through a guard for it (history variable)
    flushed,            \* buffer pool: page id -> "yes" when FlushPage returned true
                        \*         for the page after the last write to it and with no
                        \*         write guard for it alive, "gone" when DeletePage has
                        \*         dropped the page since the last write to it, else "no"
                        \*         (history variable)
    oom,                \* buffer pool: whether the latest Checked*Page call returned
                        \*         nullopt, and whether the pool was full for it then
    serial,             \* buffer pool: TRUE when the clients' calls do not overlap
    lruk,               \* replacer: an LRUKReplacer on its own, called directly
    access,             \* replacer: frame id -> the timestamps of the accesses recorded
                        \*         for the frame since it was last evicted or removed
                        \*         (history variable)
    ds,                 \* scheduler: a DiskScheduler on its own with its queue, its
                        \*         worker threads, the requests and the disk manager's log
    mtx,                \* pool mutex: bpm_latch_ and, per client thread, the public
                        \*         operation it runs and how far it has got
    cc                  \* page latches: per client thread of the B+Tree, the operation
                        \*         it runs, how far it has got, the page guards it holds
                        \*         and the page whose latch it asks for

treeVars == <<pages, root_page_id_, tree_next_page_id_, ref, hist, it>>

bpmVars == <<bpm_, thr, lastw, flushed, oom, serial>>

auxVars == <<lruk, access, ds, mtx, cc>>

vars == <<pages, root_page_id_, tree_next_page_id_, ref, hist, it, ndebug, fault,
          bpm_, thr, lastw, flushed, oom, serial, lruk, access, ds, mtx, cc>>

-----------------------------------------------------------------------------
(* Program constants and bounds *)

INVALID_PAGE_ID == -1

\* BPlusTree(..., leaf_max_size = 2, internal_max_size = 3) of the tests
leaf_max_size_ == 2

internal_max_size_ == 3

\* keys are 1..MaxKey
MaxKey == 6

\* NewPage() hands out page ids below MaxPageId only (page 0 is the header page)
MaxPageId == 8

Keys == 1..MaxKey

\* the RID stored with key k by the tests: slot number k
ValueOf(k) == k + 100

PageIds == 1..(MaxPageId - 1)

NoPage == [kind |-> "free", keys |-> <<>>, vals |-> <<>>, next |-> INVALID_PAGE_ID]

NoIter == [is_invalid_ |-> TRUE, page |-> INVALID_PAGE_ID, pos_ |-> 0, seen |-> <<>>, on |-> FALSE]

-----------------------------------------------------------------------------
(* Sequence helpers (0-based slot positions) *)

InsertSeq(s, pos, x) == SubSeq(s, 1, pos) \o <<x>> \o SubSeq(s, pos + 1, Len(s))

RemoveSeq(s, pos) == SubSeq(s, 1, pos) \o SubSeq(s, pos + 2, Len(s))

Take(s, n) == SubSeq(s, 1, n)

\* n slots of a freshly initialised page
RECURSIVE Blank(_)
Blank(n) == IF n <= 0 THEN <<>> ELSE Append(Blank(n - 1), INVALID_PAGE_ID)

GetSize(p) == Len(p.keys)

MinOf(S) == CHOOSE x \in S : \A y \in S : x <= y

-----------------------------------------------------------------------------
(* b_plus_tree_leaf_page.cpp *)

\* BPlusTreeLeafPage::Init
LeafInit == [kind |-> "leaf", keys |-> <<>>, vals |-> <<>>, next |-> INVALID_PAGE_ID]

\* BPlusTreePage::IsFull of a leaf: SplitLeafPage takes slot max_size - 1 as the
\* last slot of a full page
LeafIsFull(p) == GetSize(p) >= leaf_max_size_

\* BPlusTreeLeafPage::SearchKeyIndex: the first slot whose key is >= key, -1 when
\* every key is smaller (what Insert and Begin(key) expect of it)
LeafSearchKeyIndex(p, key) ==
    LET ge == {i \in 1..GetSize(p) : p.keys[i] >= key}
    IN  IF ge = {} THEN -1 ELSE MinOf(ge) - 1

\* BPlusTreeLeafPage::InsertKeyValueByIndex: shift the slots from pos up, store at pos
LeafInsertKeyValueByIndex(p, key, value, pos) ==
    [p EXCEPT !.keys = InsertSeq(p.keys, pos, key), !.vals = InsertSeq(p.vals, pos, value)]

\* the slot the scan of InsertKeyValue stops at: it skips the leading keys < key
LeafInsertPos(p, key) ==
    LET ge == {i \in 1..GetSize(p) : ~(p.keys[i] < key)}
    IN  IF ge = {} THEN GetSize(p) ELSE MinOf(ge) - 1

\* BPlusTreeLeafPage::InsertKeyValue
LeafInsertKeyValue(p, key, value) ==
    IF LeafIsFull(p) THEN p
    ELSE [p EXCEPT !.keys = InsertSeq(p.keys, LeafInsertPos(p, key), key),
                   !.vals = InsertSeq(p.vals, LeafInsertPos(p, key), value)]

\* SplitLeafPage, first loop: move the tail entries larger than key into other
RECURSIVE SplitLeafMove(_, _, _, _, _, _, _)
SplitLeafMove(tk, tv, ok, ov, left, right, key) ==
    IF right >= 0 /\ tk[left + 1] > key
    THEN SplitLeafMove(tk, tv, [ok EXCEPT ![right + 1] = tk[left + 1]],
                       [ov EXCEPT ![right + 1] = tv[left + 1]], left - 1, right - 1, key)
    ELSE [ok |-> ok, ov |-> ov, left |-> left, right |-> right]

\* SplitLeafPage, second loop: key is placed, copy the rest of other from this
RECURSIVE SplitLeafFill(_, _, _, _, _, _)
SplitLeafFill(tk, tv, ok, ov, left, right) ==
    IF right >= 0
    THEN SplitLeafFill(tk, tv, [ok EXCEPT ![right + 1] = tk[left + 1]],
                       [ov EXCEPT ![right + 1] = tv[left + 1]], left - 1, right - 1)
    ELSE [ok |-> ok, ov |-> ov, left |-> left, right |-> right]

\* SplitLeafPage, last loop: key belongs to this; shift the larger keys up by one
RECURSIVE SplitLeafShift(_, _, _, _)
SplitLeafShift(tk, tv, left, key) ==
    IF left >= 0 /\ tk[left + 1] > key
    THEN SplitLeafShift([tk EXCEPT ![left + 2] = tk[left + 1]],
                        [tv EXCEPT ![left + 2] = tv[left + 1]], left - 1, key)
    ELSE [tk |-> tk, tv |-> tv, left |-> left]

\* a faulty SplitLeafPage that moves the upper entries of this to other and drops
\* the new entry
SplitLeafPageDropsKey(p, other, key, value) ==
    LET this_size == (leaf_max_size_ + 1) \div 2
    IN  [this  |-> [p EXCEPT !.keys = Take(p.keys, this_size), !.vals = Take(p.vals, this_size)],
         other |-> [other EXCEPT !.keys = SubSeq(p.keys, this_size + 1, Len(p.keys)),
                                 !.vals = SubSeq(p.vals, this_size + 1, Len(p.vals))],
         aok   |-> TRUE]

\* BPlusTreeLeafPage::SplitLeafPage: this (full) and key/value go to this and other;
\* aok tells whether its assertions hold
SplitLeafPage(p, other, key, value) ==
    LET max_size   == leaf_max_size_
        this_size  == (max_size + 1) \div 2
        other_size == (max_size + 2) \div 2
        s1 == SplitLeafMove(p.keys, p.vals, Blank(other_size), Blank(other_size),
                            max_size - 1, other_size - 1, key)
        s2 == IF s1.right >= 0
              THEN SplitLeafFill(p.keys, p.vals, [s1.ok EXCEPT ![s1.right + 1] = key],
                                 [s1.ov EXCEPT ![s1.right + 1] = value], s1.left, s1.right - 1)
              ELSE s1
        s3 == SplitLeafShift(p.keys, p.vals, s2.left, key)
        newother == [other EXCEPT !.keys = s2.ok, !.vals = s2.ov]
        full == LeafIsFull(p) /\ GetSize(other) = 0 /\ s2.right = -1
    IN  IF s2.ok[1] <= key
        THEN [this  |-> [p EXCEPT !.keys = Take(p.keys, this_size), !.vals = Take(p.vals, this_size)],
              other |-> newother,
              aok   |-> full /\ s2.left = this_size - 1]
        ELSE [this  |-> [p EXCEPT !.keys = Take([s3.tk EXCEPT ![s3.left + 2] = key], this_size),
                                  !.vals = Take([s3.tv EXCEPT ![s3.left + 2] = value], this_size)],
              other |-> newother,
              aok   |-> full /\ s2.left = this_size - 2]

\* BPlusTreeLeafPage::DeleteKey, its return value
LeafDeleteKeyRet(p, key, is_root) ==
    ~(~is_root /\ GetSize(p) <= (leaf_max_size_ + 1) \div 2)

\* BPlusTreeLeafPage::DeleteKey, the page afterwards
LeafDeleteKey(p, key, is_root) ==
    LET hit == {i \in 1..GetSize(p) : p.keys[i] = key}
    IN  IF ~LeafDeleteKeyRet(p, key, is_root) \/ hit = {} THEN p
        ELSE [p EXCEPT !.keys = RemoveSeq(p.keys, MinOf(hit) - 1),
                       !.vals = RemoveSeq(p.vals, MinOf(hit) - 1)]

\* the assertion of BPlusTreeLeafPage::CombinePage
LeafCombinePageOk(p, other) == GetSize(p) + GetSize(other) <= leaf_max_size_

\* a faulty CombinePage that keeps next_page_id_ as it was
LeafCombinePageKeepNext(p, other) ==
    [this  |-> [p EXCEPT !.keys = p.keys \o other.keys, !.vals = p.vals \o other.vals],
     other |-> [other EXCEPT !.keys = <<>>, !.vals = <<>>]]

\* BPlusTreeLeafPage::CombinePage: this takes the entries of other and its next link
LeafCombinePage(p, other) ==
    [this  |-> [p EXCEPT !.keys = p.keys \o other.keys, !.vals = p.vals \o other.vals,
                         !.next = other.next],
     other |-> [other EXCEPT !.keys = <<>>, !.vals = <<>>]]

-----------------------------------------------------------------------------
(* b_plus_tree_internal_page.cpp *)

\* BPlusTreeInternalPage::Init
InternalInit == [kind |-> "internal", keys |-> <<>>, vals |-> <<>>, next |-> INVALID_PAGE_ID]

\* BPlusTreePage::IsFull of an internal page
InternalIsFull(p) == GetSize(p) >= internal_max_size_

\* std::upper_bound over key_array_[first .. first + len): binary search for the
\* first slot whose key is larger than key
RECURSIVE UpperBound(_, _, _, _)
UpperBound(keys, first, len, key) ==
    IF len <= 0 THEN first
    ELSE LET half == len \div 2
             middle == first + half
         IN  IF key < keys[middle + 1]
             THEN UpperBound(keys, first, half, key)
             ELSE UpperBound(keys, middle + 1, len - half - 1, key)

\* a faulty SearchKeyIndex that searches with std::lower_bound: an equal key is
\* sent to the child on the left of its separator
InternalSearchKeyIndexLower(p, key) == UpperBound(p.keys, 1, GetSize(p) - 1, key - 1) - 1

\* BPlusTreeInternalPage::SearchKeyIndex
InternalSearchKeyIndex(p, key) == UpperBound(p.keys, 1, GetSize(p) - 1, key) - 1

\* BPlusTreeInternalPage::InsertKeyValueByIndex
InternalInsertKeyValueByIndex(p, key, value, pos) ==
    [p EXCEPT !.keys = InsertSeq(p.keys, pos, key), !.vals = InsertSeq(p.vals, pos, value)]

\* BPlusTreeInternalPage::InsertKeyValue, its return value
InternalInsertKeyValueRet(p, key, value) == ~InternalIsFull(p)

\* the assertions of BPlusTreeInternalPage::SearchKeyIndex and ::InsertKeyValue
InternalInsertKeyValueOk(p, key) ==
    LET pos == InternalSearchKeyIndex(p, key)
    IN  InternalIsFull(p) \/ (GetSize(p) > 1 /\ (pos = 0 \/ p.keys[pos + 1] # key))

\* BPlusTreeInternalPage::InsertKeyValue, the page afterwards
InternalInsertKeyValue(p, key, value) ==
    IF InternalIsFull(p) THEN p
    ELSE InternalInsertKeyValueByIndex(p, key, value, InternalSearchKeyIndex(p, key) + 1)

\* SplitInternalPage, first loop: move the tail entries larger than key into other
RECURSIVE SplitInternalMove(_, _, _, _, _, _, _)
SplitInternalMove(tk, tv, ok, ov, left, right, key) ==
    IF right >= 1 /\ tk[left + 1] > key
    THEN SplitInternalMove(tk, tv, [ok EXCEPT ![right + 1] = tk[left + 1]],
                           [ov EXCEPT ![right + 1] = tv[left + 1]], left - 1, right - 1, key)
    ELSE [ok |-> ok, ov |-> ov, left |-> left, right |-> right]

\* SplitInternalPage, second loop: key is placed, copy the rest of other from this
RECURSIVE SplitInternalFill(_, _, _, _, _, _)
SplitInternalFill(tk, tv, ok, ov, left, right) ==
    IF right >= 1
    THEN SplitInternalFill(tk, tv, [ok EXCEPT ![right + 1] = tk[left + 1]],
                           [ov EXCEPT ![right + 1] = tv[left + 1]], left - 1, right - 1)
    ELSE [ok |-> ok, ov |-> ov, left |-> left, right |-> right]

\* SplitInternalPage, last loop: key belongs to this; shift the larger keys up by one
RECURSIVE SplitInternalShift(_, _, _, _)
SplitInternalShift(tk, tv, left, key) ==
    IF left >= 1 /\ tk[left + 1] > key
    THEN SplitInternalShift([tk EXCEPT ![left + 2] = tk[left + 1]],
                            [tv EXCEPT ![left + 2] = tv[left + 1]], left - 1, key)
    ELSE [tk |-> tk, tv |-> tv, left |-> left]

\* a faulty SplitInternalPage that returns the last separator of other for the
\* parent instead of the key between the two pages
SplitInternalPagePromotesLast(p, other, key, value) ==
    LET this_size == (internal_max_size_ - 1) \div 2 + 1
        pos == 1 + Cardinality({i \in 2..GetSize(p) : p.keys[i] < key})
        ks == InsertSeq(p.keys, pos, key)
        vs == InsertSeq(p.vals, pos, value)
    IN  [this  |-> [p EXCEPT !.keys = Take(ks, this_size), !.vals = Take(vs, this_size)],
         other |-> [other EXCEPT !.keys = SubSeq(ks, this_size + 1, Len(ks)),
                                 !.vals = SubSeq(vs, this_size + 1, Len(vs))],
         ret   |-> ks[Len(ks)],
         aok   |-> TRUE]

\* BPlusTreeInternalPage::SplitInternalPage: the pages afterwards, the key it
\* returns for the parent, and whether its assertions hold
SplitInternalPage(p, other, key, value) ==
    LET max_size   == internal_max_size_
        this_size  == (max_size - 1) \div 2 + 1
        other_size == max_size \div 2 + 1
        s1 == SplitInternalMove(p.keys, p.vals, Blank(other_size), Blank(other_size),
                                max_size - 1, other_size - 1, key)
        s2 == IF s1.right >= 1
              THEN SplitInternalFill(p.keys, p.vals, [s1.ok EXCEPT ![s1.right + 1] = key],
                                     [s1.ov EXCEPT ![s1.right + 1] = value], s1.left, s1.right - 1)
              ELSE s1
        left == s2.left
        cut  == [p EXCEPT !.keys = Take(p.keys, this_size), !.vals = Take(p.vals, this_size)]
        s3 == SplitInternalShift(p.keys, p.vals, left - 1, key)
        full == InternalIsFull(p) /\ GetSize(other) = 0 /\ s2.right = 0
    IN  IF left = this_size - 1 /\ p.keys[left + 1] <= key
        THEN [this  |-> cut,
              other |-> [other EXCEPT !.keys = [s2.ok EXCEPT ![1] = key],
                                      !.vals = [s2.ov EXCEPT ![1] = value]],
              ret   |-> key,
              aok   |-> full]
        ELSE IF left = this_size
        THEN [this  |-> cut,
              other |-> [other EXCEPT !.keys = [s2.ok EXCEPT ![1] = p.keys[left + 1]],
                                      !.vals = [s2.ov EXCEPT ![1] = p.vals[left + 1]]],
              ret   |-> p.keys[left + 1],
              aok   |-> full /\ p.keys[left + 1] <= key]
        ELSE [this  |-> [p EXCEPT !.keys = Take([s3.tk EXCEPT ![s3.left + 2] = key], this_size),
                                  !.vals = Take([s3.tv EXCEPT ![s3.left + 2] = value], this_size)],
              other |-> [other EXCEPT !.keys = [s2.ok EXCEPT ![1] = p.keys[left + 1]],
                                      !.vals = [s2.ov EXCEPT ![1] = p.vals[left + 1]]],
              ret   |-> p.keys[left + 1],
              aok   |-> full]

\* a faulty DeleteKeyByIndex that reports a page at its minimum as large enough
InternalDeleteKeyByIndexRetAlways(p, key_index) == TRUE

\* BPlusTreeInternalPage::DeleteKeyByIndex, its return value
InternalDeleteKeyByIndexRet(p, key_index) == GetSize(p) > (internal_max_size_ + 1) \div 2

\* BPlusTreeInternalPage::DeleteKeyByIndex, the page afterwards
InternalDeleteKeyByIndex(p, key_index) ==
    [p EXCEPT !.keys = RemoveSeq(p.keys, key_index), !.vals = RemoveSeq(p.vals, key_index)]

\* the assertion of BPlusTreeInternalPage::CombinePage
InternalCombinePageOk(p, other) == GetSize(p) + GetSize(other) <= internal_max_size_

\* BPlusTreeInternalPage::CombinePage
InternalCombinePage(p, other) ==
    [this  |-> [p EXCEPT !.keys = p.keys \o other.keys, !.vals = p.vals \o other.vals],
     other |-> [other EXCEPT !.keys = <<>>, !.vals = <<>>]]

-----------------------------------------------------------------------------
(* b_plus_tree.cpp: search and insertion *)

\* BPlusTree::LeafSearchRead: the page ids from the root down to the leaf for key
RECURSIVE LeafSearchRead(_, _, _)
LeafSearchRead(pg, path, key) ==
    LET cur == pg[path[Len(path)]]
    IN  IF cur.kind # "internal" \/ Len(path) > MaxPageId THEN path
        ELSE LeafSearchRead(pg, Append(path, cur.vals[InternalSearchKeyIndex(cur, key) + 1]), key)

\* BPlusTree::LeafSearch<is_insert>: the same descent under write guards; the whole
\* path from the root stays in ctx.write_set_
LeafSearch(pg, root, key) == LeafSearchRead(pg, <<root>>, key)

\* the values the scan of GetValue collects from a leaf, slot by slot
RECURSIVE LeafMatches(_, _, _)
LeafMatches(p, i, key) ==
    IF i >= GetSize(p) THEN <<>>
    ELSE (IF p.keys[i + 1] = key THEN <<p.vals[i + 1]>> ELSE <<>>) \o LeafMatches(p, i + 1, key)

\* BPlusTree::GetValue: the result vector (the call returns true iff it is not empty)
GetValue(pg, root, key) ==
    IF root = INVALID_PAGE_ID THEN <<>>
    ELSE LET path == LeafSearchRead(pg, <<root>>, key)
         IN  LeafMatches(pg[path[Len(path)]], 0, key)

\* BufferPoolManager::DeletePage as the tree calls it: it fails, and leaves the page
\* as it is, while the calling thread still holds a guard on the page
TreeDeletePage(pg, page_id, guard_held) ==
    IF guard_held THEN pg ELSE [pg EXCEPT ![page_id] = NoPage]

\* a faulty upward loop of Insert: the new root takes the first child of the old
\* root, where that is an internal page, in place of the old root
RECURSIVE InsertUpShort(_, _, _, _, _, _, _, _)
InsertUpShort(pg, next, stack, new_key, new_value, last, root0, aok) ==
    IF stack = <<>>
    THEN [pages |-> [pg EXCEPT ![next] =
                        [InternalInit EXCEPT !.keys = <<pg[last].keys[1], new_key>>,
                                             !.vals = <<IF pg[root0].kind = "internal"
                                                        THEN pg[root0].vals[1] ELSE root0,
                                                        new_value>>]],
          root |-> next, next |-> next + 1, ret |-> TRUE, aok |-> aok]
    ELSE LET parent_id == stack[Len(stack)]
             parent == pg[parent_id]
             sp == SplitInternalPage(parent, InternalInit, new_key, new_value)
         IN  IF InternalInsertKeyValueRet(parent, new_key, new_value)
             THEN [pages |-> [pg EXCEPT ![parent_id] = InternalInsertKeyValue(parent, new_key, new_value)],
                   root |-> root0, next |-> next, ret |-> TRUE, aok |-> aok]
             ELSE InsertUpShort([pg EXCEPT ![parent_id] = sp.this, ![next] = sp.other], next + 1,
                                Take(stack, Len(stack) - 1), sp.ret, next, parent_id, root0, aok)

\* BPlusTree::Insert, from the upward loop on: the separator new_key and the page
\* new_value go into the parents on the stack; last is the page split last; aok
\* tells whether every assertion on the way held
RECURSIVE InsertUp(_, _, _, _, _, _, _, _)
InsertUp(pg, next, stack, new_key, new_value, last, root0, aok) ==
    IF stack = <<>>
    THEN [pages |-> [pg EXCEPT ![next] = [InternalInit EXCEPT !.keys = <<pg[last].keys[1], new_key>>,
                                                              !.vals = <<root0, new_value>>]],
          root |-> next, next |-> next + 1, ret |-> TRUE, aok |-> aok]
    ELSE LET parent_id == stack[Len(stack)]
             parent == pg[parent_id]
             sp == SplitInternalPage(parent, InternalInit, new_key, new_value)
             a1 == aok /\ InternalInsertKeyValueOk(parent, new_key)
         IN  IF InternalInsertKeyValueRet(parent, new_key, new_value)
             THEN [pages |-> [pg EXCEPT ![parent_id] = InternalInsertKeyValue(parent, new_key, new_value)],
                   root |-> root0, next |-> next, ret |-> TRUE, aok |-> a1]
             ELSE InsertUp([pg EXCEPT ![parent_id] = sp.this, ![next] = sp.other], next + 1,
                           Take(stack, Len(stack) - 1), sp.ret, next, parent_id, root0, a1 /\ sp.aok)

\* a faulty Insert that stores the new value for a key that is stored already and
\* returns true
TreeInsertOverwrite(pg, root, next, key, value) ==
    IF root = INVALID_PAGE_ID
    THEN [pages |-> [pg EXCEPT ![next] = LeafInsertKeyValue(LeafInit, key, value)],
          root |-> next, next |-> next + 1, ret |-> TRUE, aok |-> TRUE]
    ELSE LET path == LeafSearch(pg, root, key)
             leaf_id == path[Len(path)]
             leaf == pg[leaf_id]
             found == LeafSearchKeyIndex(leaf, key)
             pos == IF found # -1 THEN found ELSE GetSize(leaf)
             sp == SplitLeafPage([leaf EXCEPT !.next = next],
                                 [LeafInit EXCEPT !.next = leaf.next], key, value)
         IN  IF found # -1 /\ leaf.keys[found + 1] = key
             THEN [pages |-> [pg EXCEPT ![leaf_id].vals[found + 1] = value],
                   root |-> root, next |-> next, ret |-> TRUE, aok |-> TRUE]
             ELSE IF ~LeafIsFull(leaf)
             THEN [pages |-> [pg EXCEPT ![leaf_id] = LeafInsertKeyValueByIndex(leaf, key, value, pos)],
                   root |-> root, next |-> next, ret |-> TRUE, aok |-> TRUE]
             ELSE InsertUp([pg EXCEPT ![leaf_id] = sp.this, ![next] = sp.other], next + 1,
                           Take(path, Len(path) - 1), sp.other.keys[1], next, leaf_id, root, sp.aok)

\* BPlusTree::Insert: the pages, the root id, the page counter, the return value and
\* whether every assertion held
TreeInsert(pg, root, next, key, value) ==
    IF root = INVALID_PAGE_ID
    THEN [pages |-> [pg EXCEPT ![next] = LeafInsertKeyValue(LeafInit, key, value)],
          root |-> next, next |-> next + 1, ret |-> TRUE, aok |-> TRUE]
    ELSE LET path == LeafSearch(pg, root, key)
             leaf_id == path[Len(path)]
             leaf == pg[leaf_id]
             found == LeafSearchKeyIndex(leaf, key)
             pos == IF found # -1 THEN found ELSE GetSize(leaf)
             sp == SplitLeafPage([leaf EXCEPT !.next = next],
                                 [LeafInit EXCEPT !.next = leaf.next], key, value)
         IN  IF found # -1 /\ leaf.keys[found + 1] = key
             THEN [pages |-> pg, root |-> root, next |-> next, ret |-> FALSE, aok |-> TRUE]
             ELSE IF ~LeafIsFull(leaf)
             THEN [pages |-> [pg EXCEPT ![leaf_id] = LeafInsertKeyValueByIndex(leaf, key, value, pos)],
                   root |-> root, next |-> next, ret |-> TRUE, aok |-> TRUE]
             ELSE InsertUp([pg EXCEPT ![leaf_id] = sp.this, ![next] = sp.other], next + 1,
                           Take(path, Len(path) - 1), sp.other.keys[1], next, leaf_id, root, sp.aok)

-----------------------------------------------------------------------------
(* b_plus_tree.cpp: removal.  Remove keeps the write guards of the whole path  *)
(* (held) until it returns.  The result of each step carries aok, whether the  *)
(* assertions up to there held, and fault: "deadlock" where the thread asks    *)
(* for the write latch of a page it holds itself, "ub" where it reads a slot   *)
(* outside an array.  A step with a fault leaves the pages as they were.       *)
(* asked records the request for a sibling's write latch: the page the thread  *)
(* holds, the page it asks for, the parent's children at that time and the     *)
(* slot index computed for the held page in its parent.                        *)

\* BPlusTree::BorrowOrCombineWithSiblingLeafPage: the pages afterwards, whether the
\* leaf borrowed (first) and the parent slot to delete otherwise (second)
BorrowOrCombineWithSiblingLeafPage(pg, leaf_id, parent_id, target_key, key_index, held) ==
    LET parent == pg[parent_id]
        a0 == GetSize(pg[leaf_id]) <= (leaf_max_size_ + 1) \div 2 /\ key_index >= 0
        leaf == LeafDeleteKey(pg[leaf_id], target_key, TRUE)
        right_page_id == parent.vals[key_index + 2]
        right_page == pg[right_page_id]
        right_after == LeafDeleteKey(right_page, right_page.keys[1], TRUE)
        rc == LeafCombinePage(leaf, right_page)
        left_page_id == parent.vals[key_index]
        left_page == pg[left_page_id]
        left_size == GetSize(left_page)
        leaf_after == LeafInsertKeyValue(leaf, left_page.keys[left_size], left_page.vals[left_size])
        lc == LeafCombinePage(left_page, leaf)
        asked == [held |-> leaf_id, children |-> parent.vals, index |-> key_index,
                  asked |-> IF key_index + 1 < GetSize(parent) THEN right_page_id
                            ELSE IF key_index < 1 THEN INVALID_PAGE_ID ELSE left_page_id]
        Stop(a, f) == [pages |-> pg, first |-> TRUE, second |-> -1, aok |-> a, fault |-> f,
                       asked |-> asked]
    IN  IF key_index + 1 < GetSize(parent)
        THEN IF right_page_id \in held THEN Stop(a0, "deadlock")
             ELSE IF GetSize(right_page) + GetSize(leaf) > leaf_max_size_
             THEN IF GetSize(right_after) = 0 THEN Stop(FALSE, "ub")
                  ELSE [pages |-> [pg EXCEPT ![leaf_id] = [leaf EXCEPT !.keys = Append(leaf.keys, right_page.keys[1]),
                                                                       !.vals = Append(leaf.vals, right_page.vals[1])],
                                             ![right_page_id] = right_after,
                                             ![parent_id].keys[key_index + 2] = right_after.keys[1]],
                        first |-> TRUE, second |-> -1,
                        aok |-> a0 /\ GetSize(right_page) > (leaf_max_size_ + 2) \div 2,
                        fault |-> "none", asked |-> asked]
             ELSE [pages |-> TreeDeletePage([pg EXCEPT ![leaf_id] = rc.this, ![right_page_id] = rc.other],
                                            right_page_id, FALSE),
                   first |-> FALSE, second |-> key_index + 1,
                   aok |-> a0 /\ GetSize(right_page) <= (leaf_max_size_ + 2) \div 2
                              /\ LeafCombinePageOk(leaf, right_page),
                   fault |-> "none", asked |-> asked]
        ELSE IF key_index < 1 THEN Stop(FALSE, "ub")
        ELSE IF left_page_id \in held THEN Stop(a0, "deadlock")
        ELSE IF GetSize(left_page) > (leaf_max_size_ + 2) \div 2
             THEN [pages |-> [pg EXCEPT ![leaf_id] = leaf_after,
                                        ![left_page_id].keys = Take(left_page.keys, left_size - 1),
                                        ![left_page_id].vals = Take(left_page.vals, left_size - 1),
                                        ![parent_id].keys[key_index + 1] = leaf_after.keys[1]],
                   first |-> TRUE, second |-> -1, aok |-> a0, fault |-> "none", asked |-> asked]
             ELSE [pages |-> TreeDeletePage([pg EXCEPT ![left_page_id] = lc.this, ![leaf_id] = lc.other],
                                            leaf_id, TRUE),
                   first |-> FALSE, second |-> key_index,
                   aok |-> a0 /\ LeafCombinePageOk(left_page, leaf), fault |-> "none", asked |-> asked]

\* BPlusTree::BorrowOrCombineWithSiblingInternalPage: the pages afterwards, whether
\* the page borrowed, and the parent slot and key to adjust or delete
BorrowOrCombineWithSiblingInternalPage(pg, cur_id, parent_id, held) ==
    LET parent == pg[parent_id]
        cur_internal == pg[cur_id]
        key_index == InternalSearchKeyIndex(parent, cur_internal.keys[1])
        parent_size == GetSize(parent)
        a0 == parent_size > 1
        right_page_id == parent.vals[key_index + 2]
        right_page == pg[right_page_id]
        right_after == InternalDeleteKeyByIndex(right_page, 0)
        rc == InternalCombinePage(cur_internal, right_page)
        left_page_id == parent.vals[key_index]
        left_page == pg[left_page_id]
        left_size == GetSize(left_page)
        lc == InternalCombinePage(left_page, cur_internal)
        asked == [held |-> cur_id, children |-> parent.vals, index |-> key_index,
                  asked |-> IF GetSize(cur_internal) = 0 \/ parent_size = 0 THEN INVALID_PAGE_ID
                            ELSE IF key_index < parent_size - 1 THEN right_page_id
                            ELSE IF key_index < 1 THEN INVALID_PAGE_ID ELSE left_page_id]
        Stop(a, f) == [pages |-> pg, is_borrow |-> TRUE, key_index |-> -1, key |-> -1,
                       aok |-> a, fault |-> f, asked |-> asked]
    IN  IF GetSize(cur_internal) = 0 \/ parent_size = 0 THEN Stop(FALSE, "ub")
        ELSE IF key_index < parent_size - 1
        THEN IF right_page_id \in held THEN Stop(a0, "deadlock")
             ELSE IF GetSize(right_page) > (internal_max_size_ + 2) \div 2
             THEN [pages |-> [pg EXCEPT ![cur_id].keys = Append(cur_internal.keys, right_page.keys[1]),
                                        ![cur_id].vals = Append(cur_internal.vals, right_page.vals[1]),
                                        ![right_page_id] = right_after],
                   is_borrow |-> TRUE, key_index |-> key_index + 1, key |-> right_after.keys[1],
                   aok |-> a0, fault |-> "none", asked |-> asked]
             ELSE IF GetSize(right_page) = 0 THEN Stop(FALSE, "ub")
             ELSE [pages |-> TreeDeletePage([pg EXCEPT ![cur_id] = rc.this, ![right_page_id] = rc.other],
                                            right_page_id, TRUE),
                   is_borrow |-> FALSE, key_index |-> key_index + 1, key |-> right_page.keys[1],
                   aok |-> a0 /\ InternalCombinePageOk(cur_internal, right_page), fault |-> "none", asked |-> asked]
        ELSE IF key_index < 1 THEN Stop(FALSE, "ub")
        ELSE IF left_page_id \in held THEN Stop(a0, "deadlock")
        ELSE IF left_size > (internal_max_size_ + 2) \div 2
             THEN [pages |-> [pg EXCEPT ![cur_id] = InternalInsertKeyValueByIndex(cur_internal,
                                                        left_page.keys[left_size], left_page.vals[left_size], 0),
                                        ![left_page_id].keys = Take(left_page.keys, left_size - 1),
                                        ![left_page_id].vals = Take(left_page.vals, left_size - 1)],
                   is_borrow |-> TRUE, key_index |-> key_index, key |-> left_page.keys[left_size],
                   aok |-> a0, fault |-> "none", asked |-> asked]
             ELSE [pages |-> TreeDeletePage([pg EXCEPT ![left_page_id] = lc.this, ![cur_id] = lc.other],
                                            cur_id, TRUE),
                   is_borrow |-> FALSE, key_index |-> key_index, key |-> cur_internal.keys[1],
                   aok |-> a0 /\ InternalCombinePageOk(left_page, cur_internal), fault |-> "none", asked |-> asked]

\* BPlusTree::Remove, step 6: a root left with one child gives way to that child
RemoveRoot(pg, root, parent_id, aok) ==
    IF GetSize(pg[parent_id]) = 0
    THEN [pages |-> pg, root |-> root, aok |-> FALSE, fault |-> "ub", latches |-> <<>>]
    ELSE IF GetSize(pg[parent_id]) <= 1
    THEN [pages |-> TreeDeletePage(pg, parent_id, FALSE), root |-> pg[parent_id].vals[1],
          aok |-> aok /\ parent_id = root, fault |-> "none", latches |-> <<>>]
    ELSE [pages |-> pg, root |-> root, aok |-> aok, fault |-> "none", latches |-> <<>>]

\* BPlusTree::Remove, the loop over the path: cur_id lost a slot and is below its
\* minimum; stack holds its ancestors
RECURSIVE RemoveUp(_, _, _, _, _, _)
RemoveUp(pg, root, stack, cur_id, held, aok) ==
    IF stack = <<>> THEN RemoveRoot(pg, root, cur_id, aok)
    ELSE LET parent_id == stack[Len(stack)]
             b == BorrowOrCombineWithSiblingInternalPage(pg, cur_id, parent_id, held)
             a1 == aok /\ b.aok
         IN  IF b.fault # "none"
             THEN [pages |-> pg, root |-> root, aok |-> a1, fault |-> b.fault,
                   latches |-> <<b.asked>>]
             ELSE IF b.is_borrow
             THEN [pages |-> [b.pages EXCEPT ![parent_id].keys[b.key_index + 1] = b.key], root |-> root,
                   aok |-> a1, fault |-> "none", latches |-> <<b.asked>>]
             ELSE IF InternalDeleteKeyByIndexRet(b.pages[parent_id], b.key_index)
             THEN [pages |-> [b.pages EXCEPT ![parent_id] = InternalDeleteKeyByIndex(@, b.key_index)],
                   root |-> root, aok |-> a1, fault |-> "none", latches |-> <<b.asked>>]
             ELSE [RemoveUp([b.pages EXCEPT ![parent_id] = InternalDeleteKeyByIndex(@, b.key_index)],
                            root, Take(stack, Len(stack) - 1), parent_id, held, a1)
                      EXCEPT !.latches = <<b.asked>> \o @]

\* BPlusTree::IsEmpty
IsEmpty(pg, root) == root = INVALID_PAGE_ID \/ GetSize(pg[root]) <= 0

\* a faulty Remove that leaves root_page_id_ as it is when the root leaf becomes empty
TreeRemoveKeepRoot(pg, root, key) ==
    IF root = INVALID_PAGE_ID
    THEN [pages |-> pg, root |-> root, aok |-> TRUE, fault |-> "none", latches |-> <<>>]
    ELSE LET path == LeafSearch(pg, root, key)
             held == {path[i] : i \in 1..Len(path)}
             leaf_id == path[Len(path)]
             leaf == pg[leaf_id]
             deleted == LeafDeleteKey(leaf, key, root = leaf_id)
             parent_id == path[Len(path) - 1]
             parent == pg[parent_id]
             key_index == InternalSearchKeyIndex(parent, leaf.keys[1])
             s == BorrowOrCombineWithSiblingLeafPage(pg, leaf_id, parent_id, key, key_index, held)
             a1 == s.aok /\ GetSize(leaf) = (leaf_max_size_ + 1) \div 2 /\ GetSize(parent) > 1
         IN  IF LeafDeleteKeyRet(leaf, key, root = leaf_id)
             THEN IF GetSize(deleted) = 0
                  THEN [pages |-> TreeDeletePage([pg EXCEPT ![leaf_id] = deleted], root, TRUE),
                        root |-> root, aok |-> TRUE, fault |-> "none", latches |-> <<>>]
                  ELSE [pages |-> [pg EXCEPT ![leaf_id] = deleted], root |-> root,
                        aok |-> TRUE, fault |-> "none", latches |-> <<>>]
             ELSE IF GetSize(leaf) = 0
             THEN [pages |-> pg, root |-> root, aok |-> FALSE, fault |-> "ub", latches |-> <<>>]
             ELSE IF s.fault # "none"
             THEN [pages |-> pg, root |-> root, aok |-> a1, fault |-> s.fault,
                   latches |-> <<s.asked>>]
             ELSE IF s.first THEN [pages |-> s.pages, root |-> root, aok |-> a1, fault |-> "none",
                   latches |-> <<s.asked>>]
             ELSE IF InternalDeleteKeyByIndexRet(s.pages[parent_id], s.second)
             THEN [pages |-> [s.pages EXCEPT ![parent_id] = InternalDeleteKeyByIndex(@, s.second)],
                   root |-> root, aok |-> a1, fault |-> "none",
                   latches |-> <<s.asked>>]
             ELSE [RemoveUp([s.pages EXCEPT ![parent_id] = InternalDeleteKeyByIndex(@, s.second)],
                            root, Take(path, Len(path) - 2), parent_id, held, a1)
                      EXCEPT !.latches = <<s.asked>> \o @]

\* BPlusTree::Remove: the pages and the root id afterwards, and the requests for
\* the latches of siblings in the order the thread made them
TreeRemove(pg, root, key) ==
    IF root = INVALID_PAGE_ID
    THEN [pages |-> pg, root |-> root, aok |-> TRUE, fault |-> "none", latches |-> <<>>]
    ELSE LET path == LeafSearch(pg, root, key)
             held == {path[i] : i \in 1..Len(path)}
             leaf_id == path[Len(path)]
             leaf == pg[leaf_id]
             deleted == LeafDeleteKey(leaf, key, root = leaf_id)
             parent_id == path[Len(path) - 1]
             parent == pg[parent_id]
             key_index == InternalSearchKeyIndex(parent, leaf.keys[1])
             s == BorrowOrCombineWithSiblingLeafPage(pg, leaf_id, parent_id, key, key_index, held)
             a1 == s.aok /\ GetSize(leaf) = (leaf_max_size_ + 1) \div 2 /\ GetSize(parent) > 1
         IN  IF LeafDeleteKeyRet(leaf, key, root = leaf_id)
             THEN IF GetSize(deleted) = 0
                  THEN [pages |-> TreeDeletePage([pg EXCEPT ![leaf_id] = deleted], root, TRUE),
                        root |-> INVALID_PAGE_ID, aok |-> TRUE, fault |-> "none", latches |-> <<>>]
                  ELSE [pages |-> [pg EXCEPT ![leaf_id] = deleted], root |-> root,
                        aok |-> TRUE, fault |-> "none", latches |-> <<>>]
             ELSE IF GetSize(leaf) = 0
             THEN [pages |-> pg, root |-> root, aok |-> FALSE, fault |-> "ub", latches |-> <<>>]
             ELSE IF s.fault # "none"
             THEN [pages |-> pg, root |-> root, aok |-> a1, fault |-> s.fault,
                   latches |-> <<s.asked>>]
             ELSE IF s.first THEN [pages |-> s.pages, root |-> root, aok |-> a1, fault |-> "none",
                   latches |-> <<s.asked>>]
             ELSE IF InternalDeleteKeyByIndexRet(s.pages[parent_id], s.second)
             THEN [pages |-> [s.pages EXCEPT ![parent_id] = InternalDeleteKeyByIndex(@, s.second)],
                   root |-> root, aok |-> a1, fault |-> "none",
                   latches |-> <<s.asked>>]
             ELSE [RemoveUp([s.pages EXCEPT ![parent_id] = InternalDeleteKeyByIndex(@, s.second)],
                            root, Take(path, Len(path) - 2), parent_id, held, a1)
                      EXCEPT !.latches = <<s.asked>> \o @]

-----------------------------------------------------------------------------
(* b_plus_tree.cpp, index_iterator.cpp: the forward scan *)

\* BPlusTree::Begin(), the descent along ValueAt(0) to the leftmost leaf
RECURSIVE LeftmostLeaf(_, _, _)
LeftmostLeaf(pg, page_id, depth) ==
    IF pg[page_id].kind # "internal" \/ depth > MaxPageId THEN page_id
    ELSE LeftmostLeaf(pg, pg[page_id].vals[1], depth + 1)

\* IndexIterator::operator*: the key at the cursor (-1 where the code's assertion
\* pos_ < GetSize() fails)
IterKey(pg, i) ==
    IF i.pos_ < GetSize(pg[i.page]) THEN pg[i.page].keys[i.pos_ + 1] ELSE -1

\* BPlusTree::Begin(): IndexIterator(guard, 0, bpm_), or the end iterator
Begin(pg, root) ==
    IF root # INVALID_PAGE_ID
    THEN [NoIter EXCEPT !.is_invalid_ = FALSE, !.page = LeftmostLeaf(pg, root, 0), !.on = TRUE]
    ELSE [NoIter EXCEPT !.on = TRUE]

\* a faulty Begin(key) that starts at slot 0 of the leaf it found
BeginKeyAtSlotZero(pg, root, key) ==
    IF root = INVALID_PAGE_ID THEN [NoIter EXCEPT !.on = TRUE]
    ELSE LET path == LeafSearchRead(pg, <<root>>, key)
             leaf_id == path[Len(path)]
         IN  IF LeafSearchKeyIndex(pg[leaf_id], key) = -1 THEN [NoIter EXCEPT !.on = TRUE]
             ELSE [NoIter EXCEPT !.is_invalid_ = FALSE, !.page = leaf_id, !.pos_ = 0, !.on = TRUE]

\* BPlusTree::Begin(key): the descent to the leaf for key under read guards, then
\* IndexIterator(WritePage(leaf), pos, bpm_) with pos = leaf->SearchKeyIndex(key),
\* or the end iterator when the tree is empty or pos is -1
BeginKey(pg, root, key) ==
    IF root = INVALID_PAGE_ID THEN [NoIter EXCEPT !.on = TRUE]
    ELSE LET path == LeafSearchRead(pg, <<root>>, key)
             leaf_id == path[Len(path)]
             pos == LeafSearchKeyIndex(pg[leaf_id], key)
         IN  IF pos = -1 THEN [NoIter EXCEPT !.on = TRUE]
             ELSE [NoIter EXCEPT !.is_invalid_ = FALSE, !.page = leaf_id, !.pos_ = pos, !.on = TRUE]

\* IndexIterator::operator++
IterNext(pg, i) ==
    IF i.pos_ + 1 = GetSize(pg[i.page])
    THEN IF pg[i.page].next = INVALID_PAGE_ID
         THEN [i EXCEPT !.is_invalid_ = TRUE, !.pos_ = 0, !.page = INVALID_PAGE_ID]
         ELSE [i EXCEPT !.page = pg[i.page].next, !.pos_ = 0]
    ELSE [i EXCEPT !.pos_ = i.pos_ + 1]

-----------------------------------------------------------------------------
(* Buffer pool: bounds and constants *)

\* BufferPoolManager(num_frames, ...) is constructed with 1..MaxFrames frames
MaxFrames == 2

\* LRUKReplacer(num_frames, k): the smallest k RecordAccess accepts
k_ == 2

\* the clients use the page ids 0..MaxPages - 1, which NewPage() hands out
MaxPages == 3

\* the client threads; each holds at most one page guard at a time
MaxThreads == 2

\* RecordAccess is called while current_timestamp_ < MaxTimestamp
MaxTimestamp == 4

\* a page image is the number of the write that produced it, and 0 when zero-filled;
\* the clients write through their guards MaxWrites times
MaxWrites == 1

\* FlushAllPages() is called while it leaves at most MaxPending requests unserved
MaxPending == 1

INVALID_FRAME_ID == -1

FrameIds == 0..(MaxFrames - 1)

BpmPageIds == 0..(MaxPages - 1)

Threads == 1..MaxThreads

Idle == [pc |-> "idle", page_id_ |-> INVALID_PAGE_ID, frame_ |-> INVALID_FRAME_ID, write |-> FALSE]

-----------------------------------------------------------------------------
(* LRUKList and LRUKReplacer.  A list is the sequence of its frame ids from *)
(* head_.next_ (the front) to head_.prev_ (Back()).  curr_size_ is a size_t:*)
(* the model keeps its value modulo 2^64 as the representative next to 0,   *)
(* so that -1 stands for SIZE_MAX and "curr_size_ <= 0" is "curr_size_ = 0".*)

ListErase(list, fid) == SelectSeq(list, LAMBDA x : x # fid)

ListPushFront(list, fid) == <<fid>> \o list

\* LRUKNode with its default member initialisers
LRUKNode == [k_ |-> 0, is_evictable_ |-> FALSE, queue_type_ |-> "None", last_visit_ |-> 0]

\* node_store_ and page_table_ are maps over all frame ids and page ids: a key that
\* the unordered_map does not hold maps to NoNode and to INVALID_FRAME_ID
NoNode == [k_ |-> 0, is_evictable_ |-> FALSE, queue_type_ |-> "Absent", last_visit_ |-> 0]

\* node_store_.find(frame_id) != node_store_.end()
HasNode(r, frame_id) == r.node_store_[frame_id] # NoNode

\* the replacer after its constructor
NewReplacer ==
    [node_store_ |-> [f \in FrameIds |-> NoNode], history_list_ |-> <<>>, cache_list_ |-> <<>>,
     current_timestamp_ |-> 0, curr_size_ |-> 0]

\* a faulty first loop of Evict that passes over every node of history_list_
HistoryVictimNone(node_store_, list, i) == INVALID_FRAME_ID

\* Evict, first loop: the evictable node nearest to Back() of history_list_, from slot i
RECURSIVE HistoryVictim(_, _, _)
HistoryVictim(node_store_, list, i) ==
    IF i = 0 THEN INVALID_FRAME_ID
    ELSE IF node_store_[list[i]].is_evictable_ THEN list[i]
    ELSE HistoryVictim(node_store_, list, i - 1)

\* Evict, second loop: the evictable node of cache_list_ with the least last_visit_,
\* walking from Back(); best is evict_id so far (min_timestamp starts at SIZE_MAX)
RECURSIVE CacheVictim(_, _, _, _)
CacheVictim(node_store_, list, i, best) ==
    IF i = 0 THEN best
    ELSE IF ~node_store_[list[i]].is_evictable_ THEN CacheVictim(node_store_, list, i - 1, best)
    ELSE IF best = INVALID_FRAME_ID
            \/ node_store_[list[i]].last_visit_ < node_store_[best].last_visit_
         THEN CacheVictim(node_store_, list, i - 1, list[i])
    ELSE CacheVictim(node_store_, list, i - 1, best)

\* LRUKReplacer::Evict: the replacer afterwards and the frame id, INVALID_FRAME_ID for nullopt
Evict(r) ==
    IF r.curr_size_ = 0 THEN [replacer |-> r, frame_id |-> INVALID_FRAME_ID]
    ELSE LET h == HistoryVictim(r.node_store_, r.history_list_, Len(r.history_list_))
             c == CacheVictim(r.node_store_, r.cache_list_, Len(r.cache_list_), INVALID_FRAME_ID)
             evict_id == IF h # INVALID_FRAME_ID THEN h ELSE c
         IN  IF evict_id = INVALID_FRAME_ID THEN [replacer |-> r, frame_id |-> INVALID_FRAME_ID]
             ELSE [replacer |->
                      [r EXCEPT !.history_list_ = ListErase(@, evict_id),
                                !.cache_list_ = ListErase(@, evict_id),
                                !.node_store_[evict_id] = LRUKNode,
                                !.curr_size_ = @ - 1],
                   frame_id |-> evict_id]

\* the assertion of RecordAccess on its argument holds
RecordAccessOk(frame_id) == frame_id # INVALID_FRAME_ID

\* a faulty RecordAccess that leaves a node in history_list_ at its K-th access
RecordAccessNoMove(r, frame_id) ==
    LET r1 ==
          IF ~HasNode(r, frame_id)
          THEN [r EXCEPT !.node_store_[frame_id] =
                            [LRUKNode EXCEPT !.k_ = 1, !.queue_type_ = "History"],
                         !.history_list_ = ListPushFront(@, frame_id)]
          ELSE IF r.node_store_[frame_id].queue_type_ = "None"
          THEN [r EXCEPT !.node_store_[frame_id].k_ = @ + 1,
                         !.node_store_[frame_id].queue_type_ = "History",
                         !.history_list_ = ListPushFront(@, frame_id)]
          ELSE [r EXCEPT !.node_store_[frame_id].k_ = @ + 1]
    IN  [r1 EXCEPT !.node_store_[frame_id].last_visit_ = r.current_timestamp_,
                   !.current_timestamp_ = @ + 1]

\* LRUKReplacer::RecordAccess
RecordAccess(r, frame_id) ==
    LET r1 ==
          IF ~HasNode(r, frame_id)
          THEN [r EXCEPT !.node_store_[frame_id] =
                            [LRUKNode EXCEPT !.k_ = 1, !.queue_type_ = "History"],
                         !.history_list_ = ListPushFront(@, frame_id)]
          ELSE IF r.node_store_[frame_id].queue_type_ = "None"
          THEN [r EXCEPT !.node_store_[frame_id].k_ = @ + 1,
                         !.node_store_[frame_id].queue_type_ = "History",
                         !.history_list_ = ListPushFront(@, frame_id)]
          ELSE IF r.node_store_[frame_id].k_ + 1 = k_
          THEN [r EXCEPT !.node_store_[frame_id].k_ = @ + 1,
                         !.node_store_[frame_id].queue_type_ = "Cache",
                         !.history_list_ = ListErase(@, frame_id),
                         !.cache_list_ = ListPushFront(@, frame_id)]
          ELSE [r EXCEPT !.node_store_[frame_id].k_ = @ + 1]
    IN  [r1 EXCEPT !.node_store_[frame_id].last_visit_ = r.current_timestamp_,
                   !.current_timestamp_ = @ + 1]

\* the assertion of SetEvictable on its argument holds: frame_id, converted to
\* unsigned long, is below replacer_size_, which a negative frame_id is not
SetEvictableOk(frame_id) == frame_id >= 0 /\ frame_id < MaxFrames

\* LRUKReplacer::SetEvictable, past its assertion
SetEvictable(r, frame_id, set_evictable) ==
    IF ~HasNode(r, frame_id)
    THEN [r EXCEPT !.node_store_[frame_id] = [LRUKNode EXCEPT !.is_evictable_ = set_evictable]]
    ELSE [r EXCEPT !.curr_size_ = IF r.node_store_[frame_id].is_evictable_ = set_evictable THEN @
                                  ELSE IF set_evictable THEN @ + 1 ELSE @ - 1,
                   !.node_store_[frame_id].is_evictable_ = set_evictable]

\* the assertions of LRUKReplacer::Remove hold: the node is evictable and in a list
RemoveOk(r, frame_id) ==
    HasNode(r, frame_id) =>
        /\ r.node_store_[frame_id].is_evictable_
        /\ r.node_store_[frame_id].queue_type_ # "None"

\* LRUKReplacer::Remove
Remove_(r, frame_id) ==
    IF ~HasNode(r, frame_id) THEN r
    ELSE [r EXCEPT !.cache_list_ = ListErase(@, frame_id),
                   !.history_list_ = ListErase(@, frame_id),
                   !.node_store_[frame_id] = NoNode,
                   !.curr_size_ = @ - 1]

-----------------------------------------------------------------------------
(* FrameHeader, DiskScheduler and BufferPoolManager.  The pool b is a record *)
(* of the members frames_, page_table_, free_frames_, next_page_id_ and      *)
(* replacer_, with the scheduler's request_queue_ and the disk's pages.      *)

\* FrameHeader::Reset
Reset(frame) == [data_ |-> 0, pin_count_ |-> 0, is_dirty_ |-> FALSE, page_id_ |-> 0]

\* a faulty assignment that leaves frame->page_id_ as it is
SetPageIdNot(frame, page_id) == frame

\* frame->page_id_ = page_id
SetPageId(frame, page_id) == [frame EXCEPT !.page_id_ = page_id]

\* a faulty erase that leaves the entry in place
PageTableEraseNot(page_table_, page_id) == page_table_

\* page_table_.erase(page_id)
PageTableErase(page_table_, page_id) == [page_table_ EXCEPT ![page_id] = INVALID_FRAME_ID]

\* page_table_.find(page_id) != page_table_.end()
InPageTable(b, page_id) == b.page_table_[page_id] # INVALID_FRAME_ID

\* free_frames_ after the constructor has pushed the frames 0..n - 1
RECURSIVE FreeFrames(_)
FreeFrames(n) == IF n = 0 THEN <<>> ELSE Append(FreeFrames(n - 1), n - 1)

\* the pool after BufferPoolManager(num_frames, ...), on a disk of zero-filled pages
\* (the frames num_frames..MaxFrames - 1 do not exist and are never referred to)
NewPool(num_frames) ==
    [num_frames_ |-> num_frames,
     frames_ |-> [f \in FrameIds |-> Reset(<<>>)],
     page_table_ |-> [p \in BpmPageIds |-> INVALID_FRAME_ID],
     free_frames_ |-> FreeFrames(num_frames),
     next_page_id_ |-> 0,
     replacer_ |-> NewReplacer,
     request_queue_ |-> <<>>,
     disk_ |-> [p \in BpmPageIds |-> 0]]

\* DiskScheduler::Schedule: the request joins the one queue of the scheduler; its
\* data_ points into a frame, so the request names the frame
Schedule(b, is_write_, frame_id, page_id) ==
    [b EXCEPT !.request_queue_ =
                 Append(@, [is_write_ |-> is_write_, data_ |-> frame_id, page_id_ |-> page_id])]

\* DiskScheduler::StartWorkerThread, one turn of the loop: the worker takes the oldest
\* request and moves the page between the disk and the frame as the frame is then
WorkerStep(b) ==
    LET request == Head(b.request_queue_)
        b1 == [b EXCEPT !.request_queue_ = Tail(@)]
    IN  IF request.is_write_
        THEN [b1 EXCEPT !.disk_[request.page_id_] = b.frames_[request.data_].data_]
        ELSE [b1 EXCEPT !.frames_[request.data_].data_ = b.disk_[request.page_id_]]

\* future.get() on the newest request: the one worker has served the whole queue
RECURSIVE AwaitAll(_)
AwaitAll(b) == IF b.request_queue_ = <<>> THEN b ELSE AwaitAll(WorkerStep(b))

\* a faulty FlushPage that reports success without scheduling the write
FlushPageNoWrite(b, page_id) == [bpm |-> b, ret |-> b.page_table_[page_id] # INVALID_FRAME_ID]

\* BufferPoolManager::FlushPage: the pool afterwards and the returned flag
FlushPage(b, page_id) ==
    IF ~InPageTable(b, page_id) THEN [bpm |-> b, ret |-> FALSE]
    ELSE [bpm |-> AwaitAll(Schedule(b, TRUE, b.page_table_[page_id], page_id)), ret |-> TRUE]

\* a faulty read_page_from_disk that leaves the frame's bytes as they are
ReadPageFromDiskNot(b, page_id, frame_id) == b

\* AllocateFrame's lambda read_page_from_disk
ReadPageFromDisk(b, page_id, frame_id) == AwaitAll(Schedule(b, FALSE, frame_id, page_id))

\* BufferPoolManager::AllocateFrame: the pool afterwards and the frame id,
\* INVALID_FRAME_ID for nullopt
AllocateFrame(b, page_id, read_from_disk) ==
    IF InPageTable(b, page_id)
    THEN [bpm |-> b, frame_id |-> b.page_table_[page_id]]
    ELSE IF b.free_frames_ # <<>>
    THEN LET frame_id == b.free_frames_[Len(b.free_frames_)]
             b1 == [b EXCEPT !.free_frames_ = SubSeq(@, 1, Len(@) - 1),
                             !.page_table_[page_id] = frame_id]
             b2 == IF read_from_disk THEN ReadPageFromDisk(b1, page_id, frame_id)
                   ELSE [b1 EXCEPT !.frames_[frame_id] = [Reset(@) EXCEPT !.is_dirty_ = TRUE]]
         IN  [bpm |-> [b2 EXCEPT !.frames_[frame_id] = SetPageId(@, page_id)],
              frame_id |-> frame_id]
    ELSE LET e == Evict(b.replacer_)
             frame_id == e.frame_id
             page_id_before == b.frames_[frame_id].page_id_
             b1 == FlushPage([b EXCEPT !.replacer_ = e.replacer], page_id_before).bpm
             b2 == [b1 EXCEPT !.page_table_ =
                                 [PageTableErase(@, page_id_before) EXCEPT ![page_id] = frame_id],
                              !.frames_[frame_id] = SetPageId(Reset(@), page_id)]
             b3 == IF read_from_disk THEN ReadPageFromDisk(b2, page_id, frame_id)
                   ELSE [b2 EXCEPT !.frames_[frame_id].is_dirty_ = TRUE]
         IN  IF frame_id = INVALID_FRAME_ID THEN [bpm |-> b, frame_id |-> INVALID_FRAME_ID]
             ELSE [bpm |-> [b3 EXCEPT !.replacer_ = SetEvictable(@, frame_id, FALSE)],
                   frame_id |-> frame_id]

\* a faulty NewPage that leaves the counter as it is
NewPageSame(b) == b

\* BufferPoolManager::NewPage, the page id it returns: next_page_id_ before the increment
NewPageId(b) == b.next_page_id_

\* BufferPoolManager::NewPage
NewPage(b) == [b EXCEPT !.next_page_id_ = @ + 1]

\* BufferPoolManager::DeletePage: the pool afterwards, the returned flag, and whether
\* the assertions of LRUKReplacer::Remove held
DeletePage(b, page_id) ==
    IF ~InPageTable(b, page_id) THEN [bpm |-> b, ret |-> TRUE, aok |-> TRUE]
    ELSE LET frame_id == b.page_table_[page_id]
         IN  IF b.frames_[frame_id].pin_count_ > 0 THEN [bpm |-> b, ret |-> FALSE, aok |-> TRUE]
             ELSE [bpm |-> [b EXCEPT !.replacer_ = Remove_(@, frame_id),
                                     !.page_table_ = PageTableErase(@, page_id),
                                     !.free_frames_ = Append(@, frame_id),
                                     !.frames_[frame_id] = Reset(@)],
                   ret |-> TRUE,
                   aok |-> RemoveOk(b.replacer_, frame_id)]

\* the resident pages in an order in which the loop of FlushAllPages may meet them
\* (the iteration order of the unordered_map page_table_)
RECURSIVE Orders(_)
Orders(S) == IF S = {} THEN {<<>>} ELSE UNION {{<<x>> \o o : o \in Orders(S \ {x})} : x \in S}

\* BufferPoolManager::FlushAllPages: it schedules a write for every entry of the
\* page table, met in the given order, and returns without waiting for them
RECURSIVE FlushAllPages(_, _)
FlushAllPages(b, order) ==
    IF order = <<>> THEN b
    ELSE FlushAllPages(Schedule(b, TRUE, b.page_table_[Head(order)], Head(order)), Tail(order))

\* ReadPageGuard / WritePageGuard constructor, under the pool's mutex: the pin
PinFrame(b, frame_id) ==
    [b EXCEPT !.frames_[frame_id].pin_count_ = @ + 1,
              !.replacer_ = SetEvictable(RecordAccess(@, frame_id), frame_id, FALSE)]

\* ReadPageGuard::Drop / WritePageGuard::Drop, the part under the pool's mutex
UnpinFrame(b, frame_id) ==
    [b EXCEPT !.frames_[frame_id].pin_count_ = @ - 1,
              !.replacer_ = IF b.frames_[frame_id].pin_count_ = 1
                            THEN SetEvictable(@, frame_id, TRUE) ELSE @]

\* WritePageGuard::AsMut and a store through it: the frame holds the image data
WriteFrame(b, frame_id, data) ==
    [b EXCEPT !.frames_[frame_id].data_ = data, !.frames_[frame_id].is_dirty_ = TRUE]

-----------------------------------------------------------------------------
(* The replacer, the scheduler and the pool's mutex on their own: bounds and  *)
(* the state after construction                                               *)

\* DiskScheduler(disk_manager, thread_num) is constructed with 1..MaxWorkers workers
MaxWorkers == 2

\* the clients pass MaxRequests requests to Schedule
MaxRequests == 2

\* the requests are for the pages 0..MaxDiskPages - 1
MaxDiskPages == 2

WorkerIds == 1..MaxWorkers

DiskPageIds == 0..(MaxDiskPages - 1)

\* what request_queue_.Put(std::nullopt) puts into the queue
Sentinel == 0

\* the scheduler after its constructor: thread_num workers before their first Get();
\* requests are the DiskRequests passed to Schedule so far, a queue entry is the
\* number of one of them, and log the numbers in the order in which
\* disk_manager_->WritePage / ReadPage returned
NewScheduler(thread_num) ==
    [thread_num_ |-> thread_num,
     request_queue_ |-> <<>>,
     worker |-> [w \in WorkerIds |->
                    [pc |-> IF w <= thread_num THEN "get" ELSE "none", request |-> 0, nullopts |-> 0]],
     requests |-> <<>>,
     log |-> <<>>,
     dtor |-> [pc |-> "alive", i |-> 0]]

\* the replacer is as constructed and stays untouched
ReplacerIdle ==
    /\ lruk = NewReplacer
    /\ access = [f \in FrameIds |-> <<>>]

\* the scheduler is as constructed and stays untouched
SchedulerIdle == ds = NewScheduler(1)

\* no thread is in a public operation of the pool
MutexIdle == mtx = [bpm_latch_ |-> 0, call |-> [t \in Threads |-> [op |-> "none", pc |-> "idle"]]]

\* no thread is in an operation of the B+Tree and no page guard is alive
NoCall == [op |-> "none", key |-> 0, pc |-> "idle", rd |-> {}, wr |-> {}, want |-> INVALID_PAGE_ID,
           n |-> 0, page |-> INVALID_PAGE_ID, pos_ |-> 0]

LatchIdle == cc = [t \in Threads |-> NoCall]

AuxIdle == ReplacerIdle /\ SchedulerIdle /\ MutexIdle /\ LatchIdle

-----------------------------------------------------------------------------
(* The B+Tree as a state machine: one client thread calling the public operations *)

\* the B+Tree is empty and stays untouched
TreeIdle ==
    /\ pages = [i \in PageIds |-> NoPage]
    /\ root_page_id_ = INVALID_PAGE_ID
    /\ tree_next_page_id_ = 1
    /\ ref = [k \in Keys |-> <<>>]
    /\ hist = "ins"
    /\ it = NoIter

\* the buffer pool is as constructed and stays untouched
PoolIdle ==
    /\ bpm_ = NewPool(MaxFrames)
    /\ thr = [t \in Threads |-> Idle]
    /\ lastw = [p \in BpmPageIds |-> 0]
    /\ flushed = [p \in BpmPageIds |-> "no"]
    /\ oom = [none |-> FALSE, full |-> FALSE]
    /\ serial = TRUE


TreeInit ==
    /\ TreeIdle
    /\ ndebug \in BOOLEAN
    /\ fault = "none"
    /\ PoolIdle
    /\ AuxIdle

\* an Insert takes at most one new page per level of the tree and one for a new root
PagesLeftFor(key) ==
    IF root_page_id_ = INVALID_PAGE_ID THEN tree_next_page_id_ + 1 <= MaxPageId
    ELSE tree_next_page_id_ + Len(LeafSearch(pages, root_page_id_, key)) + 1 <= MaxPageId

\* how a call ends whose assertions held or not (aok) and that met fault f
Outcome(aok, f) == IF ~aok /\ ~ndebug THEN "abort" ELSE f

\* tree.Insert(key, rid)
Insert(key) ==
    /\ fault = "none"
    /\ ~it.on
    /\ PagesLeftFor(key)
    /\ \E r \in {TreeInsert(pages, root_page_id_, tree_next_page_id_, key, ValueOf(key))} :
         LET f == Outcome(r.aok, "none")
         IN  /\ fault' = f
             /\ pages' = IF f = "none" THEN r.pages ELSE pages
             /\ root_page_id_' = IF f = "none" THEN r.root ELSE root_page_id_
             /\ tree_next_page_id_' = IF f = "none" THEN r.next ELSE tree_next_page_id_
    /\ ref' = IF ref[key] = <<>> THEN [ref EXCEPT ![key] = <<ValueOf(key)>>] ELSE ref
    /\ hist' = IF ref[key] # <<>> \/ hist \in {"rema", "mixa"} THEN "mixa"
               ELSE IF hist = "ins" THEN "ins" ELSE "mix"
    /\ UNCHANGED <<it, ndebug>>

\* tree.Remove(key)
Remove(key) ==
    /\ fault = "none"
    /\ ~it.on
    /\ \E r \in {TreeRemove(pages, root_page_id_, key)} :
         LET f == Outcome(r.aok, r.fault)
         IN  /\ fault' = f
             /\ pages' = IF f = "none" THEN r.pages ELSE pages
             /\ root_page_id_' = IF f = "none" THEN r.root ELSE root_page_id_
    /\ ref' = [ref EXCEPT ![key] = <<>>]
    /\ hist' = IF hist = "mixa" \/ (hist = "mix" /\ ref[key] = <<>>) THEN "mixa"
               ELSE IF hist = "mix" THEN "mix"
               ELSE IF hist = "rema" \/ ref[key] = <<>> THEN "rema" ELSE "rem"
    /\ UNCHANGED <<tree_next_page_id_, it, ndebug>>

\* for (auto iter = tree.Begin(); ...: the scan starts and reads its first entry
ScanBegin ==
    /\ fault = "none"
    /\ ~it.on
    /\ LET b == Begin(pages, root_page_id_)
       IN  it' = IF b.is_invalid_ THEN b ELSE [b EXCEPT !.seen = <<IterKey(pages, b)>>]
    /\ UNCHANGED <<pages, root_page_id_, tree_next_page_id_, ref, hist, ndebug, fault>>

\* ...; iter != tree.End(); ++iter): one step of the scan, reading the next entry
ScanNext ==
    /\ it.on /\ ~it.is_invalid_
    /\ Len(it.seen) <= MaxKey
    /\ LET n == IterNext(pages, it)
       IN  it' = IF n.is_invalid_ THEN n ELSE [n EXCEPT !.seen = Append(n.seen, IterKey(pages, n))]
    /\ UNCHANGED <<pages, root_page_id_, tree_next_page_id_, ref, hist, ndebug, fault>>

\* the scan has reached End() and its iterator is destroyed
ScanEnd ==
    /\ it.on /\ it.is_invalid_
    /\ it' = NoIter
    /\ UNCHANGED <<pages, root_page_id_, tree_next_page_id_, ref, hist, ndebug, fault>>

TreeNext ==
    /\ \/ \E key \in Keys : Insert(key)
       \/ \E key \in Keys : Remove(key)
       \/ ScanBegin
       \/ ScanNext
       \/ ScanEnd
    /\ UNCHANGED <<bpmVars, auxVars>>

SpecTree == TreeInit /\ [][TreeNext]_vars

-----------------------------------------------------------------------------
(* The buffer pool as a state machine: client threads fetch pages, write     *)
(* through their guards and drop them, while pages are allocated, deleted    *)
(* and flushed and the scheduler's worker serves the queue.  A step is what  *)
(* a call does while it holds the pool's mutex.                              *)

\* the largest element of the non-empty set S of numbers
MaxOf(S) == CHOOSE x \in S : \A y \in S : y <= x

\* the image the latest write through a guard produced
LastImage == MaxOf({lastw[p] : p \in BpmPageIds})

\* the threads between AllocateFrame's return and the pin of their guard
InWindow == {t \in Threads : thr[t].pc = "alloc"}

\* when the calls of the clients do not overlap, nobody else runs in that window
Quiet(t) == serial => InWindow \subseteq {t}

\* page_id is not resident, no frame is free and every frame is pinned
PoolFull(b, page_id) ==
    /\ ~InPageTable(b, page_id)
    /\ b.free_frames_ = <<>>
    /\ \A f \in 0..(b.num_frames_ - 1) : b.frames_[f].pin_count_ > 0

BpmInit ==
    /\ \E num_frames \in 1..MaxFrames : bpm_ = NewPool(num_frames)
    /\ thr = [t \in Threads |-> Idle]
    /\ lastw = [p \in BpmPageIds |-> 0]
    /\ flushed = [p \in BpmPageIds |-> "no"]
    /\ oom = [none |-> FALSE, full |-> FALSE]
    /\ serial = TRUE
    /\ ndebug = FALSE
    /\ fault = "none"
    /\ TreeIdle
    /\ AuxIdle

\* bpm->NewPage()
CallNewPage ==
    /\ fault = "none"
    /\ Quiet(0)
    /\ bpm_.next_page_id_ < MaxPages
    /\ bpm_' = NewPage(bpm_)
    /\ UNCHANGED <<thr, lastw, flushed, oom, serial, ndebug, fault>>

\* the first half of CheckedReadPage / CheckedWritePage: AllocateFrame; on nullopt
\* the call returns nullopt, else the guard is yet to be constructed
Fetch(t, page_id, write) ==
    /\ fault = "none"
    /\ Quiet(t)
    /\ thr[t] = Idle
    /\ page_id < bpm_.next_page_id_
    /\ bpm_.replacer_.current_timestamp_ + Cardinality(InWindow) < MaxTimestamp
    /\ \E r \in {AllocateFrame(bpm_, page_id, TRUE)} :
         /\ bpm_' = r.bpm
         /\ thr' = IF r.frame_id = INVALID_FRAME_ID THEN thr
                   ELSE [thr EXCEPT ![t] = [pc |-> "alloc", page_id_ |-> page_id,
                                             frame_ |-> r.frame_id, write |-> write]]
         /\ oom' = [none |-> r.frame_id = INVALID_FRAME_ID, full |-> PoolFull(bpm_, page_id)]
    /\ UNCHANGED <<lastw, flushed, serial, ndebug, fault>>

\* bpm->CheckedReadPage(page_id)
CheckedReadPage(t, page_id) == Fetch(t, page_id, FALSE)

\* bpm->CheckedWritePage(page_id)
CheckedWritePage(t, page_id) == Fetch(t, page_id, TRUE)

\* the guard's constructor takes the pool's mutex and pins the frame
GuardPin(t) ==
    /\ fault = "none"
    /\ thr[t].pc = "alloc"
    /\ bpm_' = PinFrame(bpm_, thr[t].frame_)
    /\ thr' = [thr EXCEPT ![t].pc = "pinned"]
    /\ UNCHANGED <<lastw, flushed, oom, serial, ndebug, fault>>

\* the threads whose guard holds the latch of frame_id, in any mode or in write mode
LatchHolders(frame_id, write_only) ==
    {u \in Threads : /\ thr[u].pc = "held"
                     /\ thr[u].frame_ = frame_id
                     /\ (write_only => thr[u].write)}

\* the guard's constructor acquires the frame's latch, shared or exclusive
GuardLatch(t) ==
    /\ fault = "none"
    /\ Quiet(t)
    /\ thr[t].pc = "pinned"
    /\ LatchHolders(thr[t].frame_, ~thr[t].write) = {}
    /\ thr' = [thr EXCEPT ![t].pc = "held"]
    /\ UNCHANGED <<bpm_, lastw, flushed, oom, serial, ndebug, fault>>

\* a store through guard.AsMut(): a new page image
GuardWrite(t) ==
    /\ fault = "none"
    /\ Quiet(t)
    /\ thr[t].pc = "held" /\ thr[t].write
    /\ LastImage < MaxWrites
    /\ bpm_' = WriteFrame(bpm_, thr[t].frame_, LastImage + 1)
    /\ lastw' = [lastw EXCEPT ![thr[t].page_id_] = LastImage + 1]
    /\ flushed' = [flushed EXCEPT ![thr[t].page_id_] = "no"]
    /\ UNCHANGED <<thr, oom, serial, ndebug, fault>>

\* guard.Drop(), or the guard's destructor
GuardDrop(t) ==
    /\ fault = "none"
    /\ Quiet(t)
    /\ thr[t].pc = "held"
    /\ bpm_' = UnpinFrame(bpm_, thr[t].frame_)
    /\ thr' = [thr EXCEPT ![t] = Idle]
    /\ UNCHANGED <<lastw, flushed, oom, serial, ndebug, fault>>

\* bpm->DeletePage(page_id)
CallDeletePage(page_id) ==
    /\ fault = "none"
    /\ Quiet(0)
    /\ page_id < bpm_.next_page_id_
    /\ \E r \in {DeletePage(bpm_, page_id)} :
         LET f == Outcome(r.aok, "none")
         IN  /\ fault' = f
             /\ bpm_' = IF f = "none" THEN r.bpm ELSE bpm_
             /\ flushed' = IF f = "none" /\ r.bpm # bpm_
                           THEN [flushed EXCEPT ![page_id] = "gone"] ELSE flushed
    /\ UNCHANGED <<thr, lastw, oom, serial, ndebug>>

\* the threads that hold or are acquiring a write guard for page_id
Writers(page_id) ==
    {u \in Threads : thr[u].pc # "idle" /\ thr[u].write /\ thr[u].page_id_ = page_id}

\* bpm->FlushPage(page_id)
CallFlushPage(page_id) ==
    /\ fault = "none"
    /\ Quiet(0)
    /\ page_id < bpm_.next_page_id_
    /\ \E r \in {FlushPage(bpm_, page_id)} :
         /\ bpm_' = r.bpm
         /\ flushed' = IF r.ret /\ Writers(page_id) = {} /\ flushed[page_id] = "no"
                       THEN [flushed EXCEPT ![page_id] = "yes"] ELSE flushed
    /\ UNCHANGED <<thr, lastw, oom, serial, ndebug, fault>>

\* bpm->FlushAllPages()
CallFlushAllPages ==
    /\ fault = "none"
    /\ Quiet(0)
    /\ LET resident == {p \in BpmPageIds : InPageTable(bpm_, p)}
       IN  /\ resident # {}
           /\ Len(bpm_.request_queue_) + Cardinality(resident) <= MaxPending
           /\ \E order \in Orders(resident) : bpm_' = FlushAllPages(bpm_, order)
    /\ UNCHANGED <<thr, lastw, flushed, oom, serial, ndebug, fault>>

\* the scheduler's background thread serves the oldest request
Worker ==
    /\ fault = "none"
    /\ bpm_.request_queue_ # <<>>
    /\ bpm_' = WorkerStep(bpm_)
    /\ UNCHANGED <<thr, lastw, flushed, oom, serial, ndebug, fault>>

BpmNext ==
    /\ \/ CallNewPage
       \/ \E t \in Threads, page_id \in BpmPageIds : CheckedReadPage(t, page_id)
       \/ \E t \in Threads, page_id \in BpmPageIds : CheckedWritePage(t, page_id)
       \/ \E t \in Threads : GuardPin(t)
       \/ \E t \in Threads : GuardLatch(t)
       \/ \E t \in Threads : GuardWrite(t)
       \/ \E t \in Threads : GuardDrop(t)
       \/ \E page_id \in BpmPageIds : CallDeletePage(page_id)
       \/ \E page_id \in BpmPageIds : CallFlushPage(page_id)
       \/ CallFlushAllPages
       \/ Worker
    /\ UNCHANGED <<treeVars, auxVars>>

SpecBPM == BpmInit /\ [][BpmNext]_vars


\* the same pool with clients whose calls overlap; the page images are not followed
RaceInit ==
    /\ \E num_frames \in 1..MaxFrames : bpm_ = NewPool(num_frames)
    /\ thr = [t \in Threads |-> Idle]
    /\ lastw = [p \in BpmPageIds |-> 0]
    /\ flushed = [p \in BpmPageIds |-> "no"]
    /\ oom = [none |-> FALSE, full |-> FALSE]
    /\ serial = FALSE
    /\ ndebug \in BOOLEAN
    /\ fault = "none"
    /\ TreeIdle
    /\ AuxIdle

RaceNext ==
    /\ \/ CallNewPage
       \/ \E t \in Threads, page_id \in BpmPageIds : CheckedReadPage(t, page_id)
       \/ \E t \in Threads, page_id \in BpmPageIds : CheckedWritePage(t, page_id)
       \/ \E t \in Threads : GuardPin(t)
       \/ \E t \in Threads : GuardLatch(t)
       \/ \E t \in Threads : GuardDrop(t)
       \/ \E page_id \in BpmPageIds : CallDeletePage(page_id)
    /\ UNCHANGED <<treeVars, auxVars>>

SpecRace == RaceInit /\ [][RaceNext]_vars

-----------------------------------------------------------------------------
(* The pool's mutex: which public operation takes bpm_latch_ before it touches *)
(* page_table_, free_frames_ and the frames' page ids.  A thread in an         *)
(* operation is at "enter", before the first statement, or at "body", reading  *)
(* and writing these members; FlushPage called from AllocateFrame is part of   *)
(* AllocateFrame's body.                                                       *)

PublicOps == {"DeletePage", "CheckedReadPage", "CheckedWritePage", "FlushPage",
              "FlushAllPages", "GetPinCount"}

\* the operation begins with a std::lock_guard on *bpm_latch_ (CheckedReadPage and
\* CheckedWritePage in AllocateFrame); FlushPage has none
TakesLatch(op) == op # "FlushPage"

MutexInit ==
    /\ MutexIdle
    /\ ReplacerIdle
    /\ SchedulerIdle
    /\ LatchIdle
    /\ PoolIdle
    /\ TreeIdle
    /\ ndebug = FALSE
    /\ fault = "none"

\* a client thread calls a public operation
MutexCall(t, op) ==
    /\ mtx.call[t].pc = "idle"
    /\ mtx' = [mtx EXCEPT !.call[t] = [op |-> op, pc |-> "enter"]]

\* std::lock_guard lock(*bpm_latch_): the thread waits until the mutex is free
MutexLock(t) ==
    /\ mtx.call[t].pc = "enter"
    /\ TakesLatch(mtx.call[t].op)
    /\ mtx.bpm_latch_ = 0
    /\ mtx' = [mtx EXCEPT !.bpm_latch_ = t, !.call[t].pc = "body"]

\* an operation without a lock_guard goes straight to page_table_.find(page_id)
MutexNoLock(t) ==
    /\ mtx.call[t].pc = "enter"
    /\ ~TakesLatch(mtx.call[t].op)
    /\ mtx' = [mtx EXCEPT !.call[t].pc = "body"]

\* the operation returns; the lock_guard, if any, releases the mutex
MutexReturn(t) ==
    /\ mtx.call[t].pc = "body"
    /\ mtx' = [mtx EXCEPT !.bpm_latch_ = IF @ = t THEN 0 ELSE @,
                          !.call[t] = [op |-> "none", pc |-> "idle"]]

MutexNext ==
    /\ \/ \E t \in Threads, op \in PublicOps : MutexCall(t, op)
       \/ \E t \in Threads : MutexLock(t)
       \/ \E t \in Threads : MutexNoLock(t)
       \/ \E t \in Threads : MutexReturn(t)
    /\ UNCHANGED <<treeVars, bpmVars, ndebug, fault, lruk, access, ds, cc>>

SpecMutex == MutexInit /\ [][MutexNext]_vars

-----------------------------------------------------------------------------
(* The disk scheduler on its own: clients call Schedule, the worker threads    *)
(* run StartWorkerThread on the one request_queue_, and the destructor puts    *)
(* the nullopts and joins the workers.  A request with frame_ set carries a    *)
(* frame back-pointer; the others are completed through callback_.             *)

\* a faulty destructor that puts a single std::nullopt
DtorPutsOne(d) == 1

\* ~DiskScheduler: the number of request_queue_.Put(std::nullopt) calls of its loop
DtorPuts(d) == d.thread_num_

DiskInit ==
    /\ \E thread_num \in 1..MaxWorkers : ds = NewScheduler(thread_num)
    /\ ReplacerIdle
    /\ MutexIdle
    /\ LatchIdle
    /\ PoolIdle
    /\ TreeIdle
    /\ ndebug = FALSE
    /\ fault = "none"

\* the first assertion of Schedule holds: the page id is not negative
ScheduleOk(page_id_) == page_id_ >= 0

\* disk_scheduler->Schedule(r), before the destructor has begun
DiskSchedule(is_write_, page_id_, frame_) ==
    /\ fault = "none"
    /\ ds.dtor.pc = "alive"
    /\ Len(ds.requests) < MaxRequests
    /\ LET f == Outcome(ScheduleOk(page_id_), "none")
       IN  /\ fault' = f
           /\ ds' = IF f # "none" THEN ds
                    ELSE [ds EXCEPT !.requests = Append(@, [is_write_ |-> is_write_,
                                                            page_id_ |-> page_id_,
                                                            frame_ |-> frame_, done |-> FALSE,
                                                            callback_ |-> FALSE]),
                                    !.request_queue_ = Append(@, Len(ds.requests) + 1)]

\* StartWorkerThread: request_queue_.Get() returns the oldest entry; on std::nullopt
\* the loop ends and the thread exits
WorkerGet(w) ==
    /\ fault = "none"
    /\ UNCHANGED fault
    /\ ds.worker[w].pc = "get"
    /\ ds.request_queue_ # <<>>
    /\ LET request == Head(ds.request_queue_)
       IN  ds' = [ds EXCEPT !.request_queue_ = Tail(@),
                            !.worker[w] = IF request = Sentinel
                                          THEN [pc |-> "exited", request |-> 0,
                                                nullopts |-> @.nullopts + 1]
                                          ELSE [pc |-> "run", request |-> request,
                                                nullopts |-> @.nullopts]]

\* StartWorkerThread, the body of the loop: the disk manager writes or reads the
\* page; then the frame's flag is set and its waiters are notified if the request
\* has a frame, and callback_.set_value(true) is called if it has none
WorkerRun(w) ==
    /\ fault = "none"
    /\ UNCHANGED fault
    /\ ds.worker[w].pc = "run"
    /\ LET i == ds.worker[w].request
       IN  ds' = [ds EXCEPT !.log = Append(@, i),
                            !.requests[i].done = TRUE,
                            !.requests[i].callback_ = ~ds.requests[i].frame_,
                            !.worker[w].pc = "get",
                            !.worker[w].request = 0]

\* the scheduler is destroyed: ~DiskScheduler begins
DiskDestroy ==
    /\ fault = "none"
    /\ UNCHANGED fault
    /\ ds.dtor.pc = "alive"
    /\ ds' = [ds EXCEPT !.dtor = [pc |-> IF DtorPuts(ds) > 0 THEN "put" ELSE "join", i |-> 0]]

\* ~DiskScheduler, first loop: one request_queue_.Put(std::nullopt)
DtorPut ==
    /\ fault = "none"
    /\ UNCHANGED fault
    /\ ds.dtor.pc = "put"
    /\ ds' = [ds EXCEPT !.request_queue_ = Append(@, Sentinel),
                        !.dtor = IF ds.dtor.i + 1 < DtorPuts(ds)
                                 THEN [pc |-> "put", i |-> ds.dtor.i + 1]
                                 ELSE [pc |-> "join", i |-> 0]]

\* ~DiskScheduler, second loop: background_thread->join() returns once the thread
\* has exited
DtorJoin ==
    /\ fault = "none"
    /\ UNCHANGED fault
    /\ ds.dtor.pc = "join"
    /\ ds.worker[ds.dtor.i + 1].pc = "exited"
    /\ ds' = [ds EXCEPT !.dtor = IF ds.dtor.i + 1 < ds.thread_num_
                                 THEN [pc |-> "join", i |-> ds.dtor.i + 1]
                                 ELSE [pc |-> "done", i |-> 0]]

DiskNext ==
    /\ \/ \E is_write_ \in BOOLEAN, page_id_ \in INVALID_PAGE_ID..(MaxDiskPages - 1),
               frame_ \in BOOLEAN :
              DiskSchedule(is_write_, page_id_, frame_)
       \/ \E w \in WorkerIds : WorkerGet(w)
       \/ \E w \in WorkerIds : WorkerRun(w)
       \/ DiskDestroy
       \/ DtorPut
       \/ DtorJoin
    /\ UNCHANGED <<treeVars, bpmVars, ndebug, lruk, access, mtx, cc>>

\* the worker threads and the thread in the destructor keep running
SpecDisk ==
    /\ DiskInit
    /\ [][DiskNext]_vars
    /\ \A w \in WorkerIds : WF_ds(WorkerGet(w)) /\ WF_ds(WorkerRun(w))
    /\ WF_ds(DtorPut)
    /\ WF_ds(DtorJoin)

-----------------------------------------------------------------------------
(* The replacer on its own, LRUKReplacer(MaxFrames, k_): a client calls        *)
(* RecordAccess, SetEvictable, Evict and Remove in any order, with the frame   *)
(* ids 0..MaxFrames, of which MaxFrames is not below replacer_size_, and with  *)
(* INVALID_FRAME_ID in a build that keeps its assertions.                      *)

\* the calls are made while curr_size_, which Remove and SetEvictable can take below
\* 0 (to SIZE_MAX and down), has wrapped around by at most MaxUnderflow
MaxUnderflow == 2

ReplacerInit ==
    /\ lruk = [NewReplacer EXCEPT !.node_store_ = [f \in 0..MaxFrames |-> NoNode]]
    /\ access = [f \in 0..MaxFrames |-> <<>>]
    /\ SchedulerIdle
    /\ MutexIdle
    /\ LatchIdle
    /\ PoolIdle
    /\ TreeIdle
    /\ ndebug \in BOOLEAN
    /\ fault = "none"

\* replacer.RecordAccess(frame_id)
ReplacerRecordAccess(frame_id) ==
    /\ fault = "none"
    /\ lruk.current_timestamp_ < MaxTimestamp
    /\ frame_id = INVALID_FRAME_ID => ~ndebug
    /\ LET f == Outcome(RecordAccessOk(frame_id), "none")
       IN  /\ fault' = f
           /\ lruk' = IF f = "none" THEN RecordAccess(lruk, frame_id) ELSE lruk
           /\ access' = IF f = "none"
                        THEN [access EXCEPT ![frame_id] = Append(@, lruk.current_timestamp_)]
                        ELSE access

\* replacer.SetEvictable(frame_id, set_evictable)
ReplacerSetEvictable(frame_id, set_evictable) ==
    /\ fault = "none"
    /\ lruk.curr_size_ >= 0 - MaxUnderflow
    /\ frame_id = INVALID_FRAME_ID => ~ndebug
    /\ LET f == Outcome(SetEvictableOk(frame_id), "none")
       IN  /\ fault' = f
           /\ lruk' = IF f = "none" THEN SetEvictable(lruk, frame_id, set_evictable) ELSE lruk
    /\ UNCHANGED access

\* replacer.Evict()
ReplacerEvict ==
    /\ fault = "none"
    /\ \E e \in {Evict(lruk)} :
         /\ lruk' = e.replacer
         /\ access' = IF e.frame_id = INVALID_FRAME_ID THEN access
                      ELSE [access EXCEPT ![e.frame_id] = <<>>]
    /\ UNCHANGED fault

\* replacer.Remove(frame_id)
ReplacerRemove(frame_id) ==
    /\ fault = "none"
    /\ lruk.curr_size_ >= 0 - MaxUnderflow
    /\ LET f == Outcome(RemoveOk(lruk, frame_id), "none")
       IN  /\ fault' = f
           /\ lruk' = IF f = "none" THEN Remove_(lruk, frame_id) ELSE lruk
           /\ access' = IF f = "none" /\ HasNode(lruk, frame_id)
                        THEN [access EXCEPT ![frame_id] = <<>>] ELSE access

ReplacerNext ==
    /\ \/ \E frame_id \in INVALID_FRAME_ID..MaxFrames : ReplacerRecordAccess(frame_id)
       \/ \E frame_id \in INVALID_FRAME_ID..MaxFrames, set_evictable \in BOOLEAN :
              ReplacerSetEvictable(frame_id, set_evictable)
       \/ ReplacerEvict
       \/ \E frame_id \in 0..MaxFrames : ReplacerRemove(frame_id)
    /\ UNCHANGED <<treeVars, bpmVars, ndebug, ds, mtx, cc>>

SpecReplacer == ReplacerInit /\ [][ReplacerNext]_vars

-----------------------------------------------------------------------------
(* The B+Tree against its reference map *)

StoredKeys == {k \in Keys : ref[k] # <<>>}

RECURSIVE SortedSeq(_)
SortedSeq(S) == IF S = {} THEN <<>> ELSE <<MinOf(S)>> \o SortedSeq(S \ {MinOf(S)})

\* GetValue(k) finds exactly the value stored for k, and nothing for the other keys
TreeAgreesWithRef ==
    \A k \in Keys : GetValue(pages, root_page_id_, k) = ref[k]

\* a scan that reached End() has visited the stored keys in ascending order
ScanComplete == (it.on /\ it.is_invalid_) => it.seen = SortedSeq(StoredKeys)

\* a scan never visits more entries than there are stored keys
ScanBounded == Len(it.seen) <= Cardinality(StoredKeys)

\* C1: after Inserts of distinct keys followed by Removes of stored keys, every call
\* has returned and GetValue(k) yields exactly the one value inserted for k if k is
\* still stored, and no value for every other key.
C1_GetValueRefinesMap ==
    hist \in {"ins", "rem"} => (fault = "none" /\ TreeAgreesWithRef)

\* C2: after any sequence of Insert and Remove calls, every call has returned and the
\* scan from Begin() with ++ up to End() visits every stored key exactly once, in
\* ascending order, and ends.
C2_ScanVisitsStoredKeys == fault = "none" /\ ScanComplete /\ ScanBounded

-----------------------------------------------------------------------------
(* The buffer pool and its page guards *)

\* the threads whose guard for page_id is constructed far enough to hold its pin
LiveGuards(page_id) ==
    {t \in Threads : thr[t].pc \in {"pinned", "held"} /\ thr[t].page_id_ = page_id}

\* the threads that hold a guard for page_id with its latch, in write or in read mode
Holders(page_id, write) ==
    {t \in Threads : thr[t].pc = "held" /\ thr[t].page_id_ = page_id /\ thr[t].write = write}

\* the replacer has frame_id marked evictable
MarkedEvictable(b, frame_id) ==
    HasNode(b.replacer_, frame_id) /\ b.replacer_.node_store_[frame_id].is_evictable_

\* the frames of the pool b
FramesOf(b) == 0..(b.num_frames_ - 1)

\* the frames the page table of b maps a page to
TableFrames(b) == {b.page_table_[p] : p \in {q \in BpmPageIds : InPageTable(b, q)}}

\* the frames in the free list of b
FreeSet(b) == {b.free_frames_[i] : i \in 1..Len(b.free_frames_)}

\* thread t has just been given a frame that AllocateFrame took from the replacer
EvictedInto(t) ==
    /\ thr[t].pc = "alloc"
    /\ bpm_.replacer_.node_store_[thr[t].frame_] = LRUKNode

\* C3: between the calls, every resident page has as many pins as live guards, and
\* its frame is marked evictable in the replacer exactly when it has no pin.
C3_PinCountIsLiveGuards ==
    InWindow = {} =>
        \A p \in BpmPageIds :
            InPageTable(bpm_, p) =>
                /\ bpm_.frames_[bpm_.page_table_[p]].pin_count_ = Cardinality(LiveGuards(p))
                /\ MarkedEvictable(bpm_, bpm_.page_table_[p])
                       <=> bpm_.frames_[bpm_.page_table_[p]].pin_count_ = 0

\* C4: no call fails, and from AllocateFrame's return until its guard is dropped the
\* frame picked for page p stays the frame the page table maps p to and holds p.
C4_GuardFrameHoldsItsPage ==
    /\ fault = "none"
    /\ \A t \in Threads :
          thr[t].pc # "idle" =>
              /\ bpm_.page_table_[thr[t].page_id_] = thr[t].frame_
              /\ bpm_.frames_[thr[t].frame_].page_id_ = thr[t].page_id_

\* C5: at every moment a page has at most one write guard, and no read guard
\* together with a write guard.
C5_OneWriterOrReaders ==
    \A p \in BpmPageIds :
        /\ Cardinality(Holders(p, TRUE)) <= 1
        /\ Holders(p, TRUE) # {} => Holders(p, FALSE) = {}

C8_DirtyVictimWrittenBack ==
    [][\A p \in BpmPageIds :
          (/\ InPageTable(bpm_, p)
           /\ ~InPageTable(bpm_', p)
           /\ bpm_.frames_[bpm_.page_table_[p]].is_dirty_
           /\ bpm_.page_table_[p] \notin FreeSet(bpm_'))
          => bpm_'.disk_[p] = bpm_.frames_[bpm_.page_table_[p]].data_]_vars

\* C8 happens: a frame was taken from the replacer, and a page written through a guard
\* and never flushed by FlushPage is off the pool with its last image on disk
C8_Witness ==
    /\ \E t \in Threads : EvictedInto(t)
    /\ \E p \in BpmPageIds :
          /\ ~InPageTable(bpm_, p) /\ flushed[p] = "no"
          /\ lastw[p] > 0 /\ bpm_.disk_[p] = lastw[p]

\* C9: every page-table entry (page_id, frame_id) has frames_[frame_id].page_id_ = page_id.
C9_PageTableMatchesFrames ==
    \A p \in BpmPageIds :
        InPageTable(bpm_, p) => bpm_.frames_[bpm_.page_table_[p]].page_id_ = p

\* C9 happens: the page table maps a page other than page 0 to an evicted frame
C9_Witness ==
    \E t \in Threads :
        /\ EvictedInto(t)
        /\ thr[t].page_id_ > 0
        /\ bpm_.page_table_[thr[t].page_id_] = thr[t].frame_

\* C10: the free list and the frames of the page table partition the frames of the
\* pool, so |free list| + |page table| = num_frames.
C10_FreeAndTablePartitionFrames ==
    /\ FreeSet(bpm_) \cap TableFrames(bpm_) = {}
    /\ FreeSet(bpm_) \cup TableFrames(bpm_) = FramesOf(bpm_)
    /\ Len(bpm_.free_frames_) + Cardinality({p \in BpmPageIds : InPageTable(bpm_, p)})
          = bpm_.num_frames_

\* C10 happens: frames have moved from the free list to the page table, one of them by
\* an eviction, and a frame is back on the free list after DeletePage
C10_Witness ==
    /\ bpm_.free_frames_ # <<>>
    /\ TableFrames(bpm_) # {}
    /\ \E t \in Threads : EvictedInto(t)

\* C11: wherever DeletePage(p) can be called it returns, false and changing nothing
\* exactly when p is resident with pin_count > 0, and true otherwise; after true p is
\* not in the page table, and the frame it had is in the free list with pin_count 0,
\* not dirty, zeroed data and no node in the replacer.
C11_DeletePageContract ==
    (fault = "none" /\ Quiet(0)) =>
        \A p \in BpmPageIds : p < bpm_.next_page_id_ =>
            LET r == DeletePage(bpm_, p)
                f == bpm_.page_table_[p]
            IN  /\ Outcome(r.aok, "none") = "none"
                /\ ~r.ret <=> (InPageTable(bpm_, p) /\ bpm_.frames_[f].pin_count_ > 0)
                /\ ~r.ret => r.bpm = bpm_
                /\ r.ret => ~InPageTable(r.bpm, p)
                /\ (r.ret /\ InPageTable(bpm_, p)) =>
                       /\ f \in FreeSet(r.bpm)
                       /\ r.bpm.frames_[f].pin_count_ = 0
                       /\ ~r.bpm.frames_[f].is_dirty_
                       /\ r.bpm.frames_[f].data_ = 0
                       /\ ~HasNode(r.bpm.replacer_, f)

\* C12: NewPage() returns the counter's value and leaves the counter one higher, so
\* the ids returned start at 0, are distinct and strictly increasing, and none is
\* returned again, whatever DeletePage did; a step that hands out an id changes neither
\* the page table, the free list nor a frame; no other step moves the counter.
C12_NewPageIdsIncrease ==
    /\ [](/\ NewPageId(bpm_) = bpm_.next_page_id_
          /\ NewPageId(bpm_) >= 0
          /\ NewPage(bpm_).next_page_id_ = NewPageId(bpm_) + 1
          /\ NewPage(bpm_).page_table_ = bpm_.page_table_
          /\ NewPage(bpm_).free_frames_ = bpm_.free_frames_
          /\ NewPage(bpm_).frames_ = bpm_.frames_)
    /\ [][/\ bpm_'.next_page_id_ >= bpm_.next_page_id_
          /\ bpm_'.next_page_id_ # bpm_.next_page_id_ =>
                 /\ bpm_' = NewPage(bpm_)
                 /\ NewPageId(bpm_') > NewPageId(bpm_)]_vars

\* every id has been handed out, page 0 has been deleted from the pool since
C12_Witness ==
    /\ bpm_.next_page_id_ = MaxPages
    /\ flushed[0] = "gone"
    /\ ~InPageTable(bpm_, 0)

\* C13: wherever FlushPage(pid) can be called, with no write guard for pid alive, and
\* returns true, the frame that holds pid is not dirty afterwards.
C13_FlushClearsDirty ==
    (fault = "none" /\ Quiet(0)) =>
        \A p \in BpmPageIds : (p < bpm_.next_page_id_ /\ Writers(p) = {}) =>
            LET r == FlushPage(bpm_, p)
            IN  r.ret => ~r.bpm.frames_[r.bpm.page_table_[p]].is_dirty_

\* C14: wherever FlushAllPages() can be called, with no request of an earlier call
\* pending, then at its return no write-back it scheduled is still in the queue and
\* the disk holds the bytes of every page that was resident.
C14_FlushAllPagesWritten ==
    (fault = "none" /\ Quiet(0) /\ bpm_.request_queue_ = <<>>) =>
        LET resident == {p \in BpmPageIds : InPageTable(bpm_, p)}
        IN  \A order \in Orders(resident) :
                LET b == FlushAllPages(bpm_, order)
                IN  /\ b.request_queue_ = <<>>
                    /\ \A p \in resident : b.disk_[p] = bpm_.frames_[bpm_.page_table_[p]].data_

\* C15: a thread that is reading or writing the page table, the free list or the
\* frames' page ids in a public operation holds the pool's mutex, so no two threads
\* are there at the same time.
C15_PageTableUnderMutex ==
    /\ \A t \in Threads : mtx.call[t].pc = "body" => mtx.bpm_latch_ = t
    /\ Cardinality({t \in Threads : mtx.call[t].pc = "body"}) <= 1

\* C16: the disk manager performs two requests for one page, at least one of them a
\* write, in the order in which they were scheduled, with any number of worker threads.
C16_DiskOrderPerPage ==
    \A a, b \in 1..Len(ds.log) :
        (/\ a < b
         /\ ds.requests[ds.log[a]].page_id_ = ds.requests[ds.log[b]].page_id_
         /\ ds.requests[ds.log[a]].is_write_ \/ ds.requests[ds.log[b]].is_write_) =>
            ds.log[a] < ds.log[b]

\* C17: once the disk manager has performed a request, the request's promise is
\* fulfilled, for reads and writes, with or without a frame back-pointer.
C17_PromiseFulfilled ==
    \A i \in 1..Len(ds.requests) : ds.requests[i].done => ds.requests[i].callback_

\* every worker thread of the scheduler has left StartWorkerThread
AllExited == \A w \in 1..ds.thread_num_ : ds.worker[w].pc = "exited"

\* what holds of a scheduler in and after its destructor
DestructorSafe ==
    /\ \A w \in 1..ds.thread_num_ : ds.worker[w].nullopts <= 1
    /\ AllExited =>
           /\ \A i \in 1..Len(ds.requests) : ds.requests[i].done
           /\ \A w \in 1..ds.thread_num_ : ds.worker[w].nullopts = 1
           /\ ds.request_queue_ = <<>>
    /\ ds.dtor.pc = "done" => AllExited

Farther(f, g) ==
    IF Len(access[f]) < k_
    THEN Len(access[g]) >= k_ \/ access[f][1] < access[g][1]
    ELSE /\ Len(access[g]) >= k_
         /\ access[f][Len(access[f]) - k_ + 1] < access[g][Len(access[g]) - k_ + 1]

\* C19: the frame Evict() returns is evictable, has accesses recorded, and has a larger
\* backward K-distance than every other such frame.
C19_EvictMaxKDistance ==
    fault = "none" =>
        LET victim == Evict(lruk).frame_id
            evictable == {f \in DOMAIN access : lruk.node_store_[f].is_evictable_ /\ access[f] # <<>>}
        IN  victim # INVALID_FRAME_ID =>
                /\ victim \in evictable
                /\ \A g \in evictable \ {victim} : Farther(victim, g)

\* C20: Evict() returns none exactly when Size() is 0; a frame it returns was
\* evictable, is in no list afterwards and has a fresh entry or none, and Size() has
\* gone down by one.
C20_EvictNoneIffEmpty ==
    fault = "none" =>
        LET e == Evict(lruk)
        IN  /\ e.frame_id = INVALID_FRAME_ID <=> lruk.curr_size_ = 0
            /\ e.frame_id # INVALID_FRAME_ID =>
                   /\ lruk.node_store_[e.frame_id].is_evictable_
                   /\ e.replacer.node_store_[e.frame_id] \in {LRUKNode, NoNode}
                   /\ e.replacer.history_list_ = ListErase(e.replacer.history_list_, e.frame_id)
                   /\ e.replacer.cache_list_ = ListErase(e.replacer.cache_list_, e.frame_id)
                   /\ e.replacer.curr_size_ = lruk.curr_size_ - 1

\* C21: Size() is the number of frames whose evictable flag is set, after any
\* calls of the replacer; SetEvictable(f, flag) changes Size() by one, up or
\* down, exactly when it changes the flag of f, and changes nothing at all when
\* f has that flag already.  A frame without a node has the flag unset.
C21_SizeCountsEvictable ==
    fault = "none" =>
        /\ lruk.curr_size_ =
               Cardinality({f \in DOMAIN lruk.node_store_ : lruk.node_store_[f].is_evictable_})
        /\ \A f \in FrameIds, flag \in BOOLEAN :
             LET r == SetEvictable(lruk, f, flag)
                 was == lruk.node_store_[f].is_evictable_
             IN  /\ r.node_store_[f].is_evictable_ = flag
                 /\ r.curr_size_ = IF was = flag THEN lruk.curr_size_
                                   ELSE IF flag THEN lruk.curr_size_ + 1
                                   ELSE lruk.curr_size_ - 1
                 /\ (was = flag /\ HasNode(lruk, f)) => r = lruk

\* C22: Remove(f) changes nothing when f has no entry; when f has an entry and is
\* evictable, the entry and its place in the lists are removed, however often f
\* was accessed, and Size() decreases by exactly one; when f has an entry and is
\* not evictable, the call aborts (in a build that keeps its assertions).
C22_RemoveContract ==
    (fault = "none" /\ ~ndebug) =>
        \A f \in DOMAIN lruk.node_store_ :
            LET ok == Outcome(RemoveOk(lruk, f), "none") = "none"
                r == Remove_(lruk, f)
            IN  /\ ~HasNode(lruk, f) => ok /\ r = lruk
                /\ (HasNode(lruk, f) /\ lruk.node_store_[f].is_evictable_) =>
                       /\ ok
                       /\ ~HasNode(r, f)
                       /\ \A i \in 1..Len(r.history_list_) : r.history_list_[i] # f
                       /\ \A i \in 1..Len(r.cache_list_) : r.cache_list_[i] # f
                       /\ r.curr_size_ = lruk.curr_size_ - 1
                /\ (HasNode(lruk, f) /\ ~lruk.node_store_[f].is_evictable_) => ~ok

\* C23: RecordAccess and SetEvictable with a frame id that is not in
\* [0, num_frames) abort and leave the replacer as it was, and Schedule with a
\* negative page id aborts and puts nothing into the queue (in a build that
\* keeps its assertions).
C23_BadArgumentAborts ==
    (fault = "none" /\ ~ndebug) =>
        /\ \A f \in (INVALID_FRAME_ID..MaxFrames) \ FrameIds :
             /\ Outcome(RecordAccessOk(f), "none") = "abort"
             /\ Outcome(SetEvictableOk(f), "none") = "abort"
        /\ \A p \in (INVALID_PAGE_ID..(MaxDiskPages - 1)) \ DiskPageIds :
             Outcome(ScheduleOk(p), "none") = "abort"

\* the pages of the tree below and including page_id, each with its depth
RECURSIVE Subtree(_, _, _)
Subtree(pg, page_id, depth) ==
    IF page_id \notin PageIds THEN {}
    ELSE IF pg[page_id].kind # "internal" \/ depth > MaxPageId
    THEN {[page |-> page_id, depth |-> depth]}
    ELSE {[page |-> page_id, depth |-> depth]}
         \cup UNION {Subtree(pg, pg[page_id].vals[i], depth + 1) : i \in 1..GetSize(pg[page_id])}

\* C24: after every Insert and Remove that has returned, all leaves of the tree
\* are at the same depth below the root.
C24_LeavesAtSameDepth ==
    fault = "none" =>
        \A a, b \in Subtree(pages, root_page_id_, 0) :
            (pages[a.page].kind = "leaf" /\ pages[b.page].kind = "leaf") => a.depth = b.depth

\* Removes have returned from a tree that has leaves two levels below its root
C24_Witness ==
    /\ fault = "none"
    /\ hist \in {"rem", "mix"}
    /\ \E n \in Subtree(pages, root_page_id_, 0) : pages[n.page].kind = "leaf" /\ n.depth = 2
    /\ Cardinality(StoredKeys) < MaxKey - 1

\* the sizes of the nodes of the tree are in range, with (M + 1) / 2 as the least
\* size of a node with max_size M that is not the root, rounded up or down
SizesInRange(round_up) ==
    \A n \in Subtree(pages, root_page_id_, 0) :
        LET p == pages[n.page]
            M == IF p.kind = "internal" THEN internal_max_size_ ELSE leaf_max_size_
        IN  /\ GetSize(p) <= M
            /\ n.page # root_page_id_ =>
                   GetSize(p) >= (IF round_up THEN (M + 2) \div 2 ELSE (M + 1) \div 2)
            /\ (n.page = root_page_id_ /\ p.kind = "internal") => GetSize(p) >= 1

C26_LeafChainVisitsLeaves ==
    (fault = "none" /\ root_page_id_ # INVALID_PAGE_ID) =>
        LET RECURSIVE Chain(_, _)
            Chain(page_id, n) ==
                IF page_id = INVALID_PAGE_ID \/ n > MaxPageId THEN <<>>
                ELSE <<page_id>> \o Chain(pages[page_id].next, n + 1)
            chain == Chain(LeftmostLeaf(pages, root_page_id_, 0), 0)
            leaves == {n.page : n \in {m \in Subtree(pages, root_page_id_, 0) :
                                           pages[m.page].kind = "leaf"}}
        IN  /\ Len(chain) <= Cardinality(leaves)
            /\ {chain[i] : i \in 1..Len(chain)} = leaves
            /\ \A i \in 1..(Len(chain) - 1) :
                 \A a \in 1..GetSize(pages[chain[i]]), b \in 1..GetSize(pages[chain[i + 1]]) :
                     pages[chain[i]].keys[a] < pages[chain[i + 1]].keys[b]

\* Removes have returned that merged a leaf away, and the tree still has leaves
\* under an internal root
C26_Witness ==
    /\ fault = "none"
    /\ hist \in {"rem", "mix"}
    /\ root_page_id_ # INVALID_PAGE_ID
    /\ pages[root_page_id_].kind = "internal"
    /\ \E p \in PageIds :
         /\ p < tree_next_page_id_
         /\ p \notin {n.page : n \in Subtree(pages, root_page_id_, 0)}

\* C27: in every state of the tree, Remove(k) of a key k that is not stored
\* returns, with no assertion failed, and leaves every page and the root page id
\* as they were.
C27_RemoveAbsentIsNoOp ==
    fault = "none" =>
        \A k \in Keys :
            (ref[k] = <<>> /\ GetValue(pages, root_page_id_, k) = <<>>) =>
                LET r == TreeRemove(pages, root_page_id_, k)
                IN  /\ r.aok
                    /\ r.fault = "none"
                    /\ r.pages = pages
                    /\ r.root = root_page_id_

C29_RemoveLastKeyEmptiesTree ==
    fault = "none" =>
        \A k \in Keys :
            (/\ root_page_id_ # INVALID_PAGE_ID
             /\ pages[root_page_id_].kind = "leaf"
             /\ pages[root_page_id_].keys = <<k>>) =>
                LET r == TreeRemove(pages, root_page_id_, k)
                IN  /\ r.aok /\ r.fault = "none"
                    /\ r.root = INVALID_PAGE_ID
                    /\ IsEmpty(r.pages, r.root)
                    /\ \A j \in Keys : GetValue(r.pages, r.root, j) = <<>>
                    /\ Begin(r.pages, r.root).is_invalid_
                    /\ \A j \in Keys :
                         tree_next_page_id_ < MaxPageId =>
                             LET i == TreeInsert(r.pages, r.root, tree_next_page_id_, j, ValueOf(j))
                             IN  /\ i.ret
                                 /\ i.root = tree_next_page_id_
                                 /\ i.pages[i.root] = [LeafInit EXCEPT !.keys = <<j>>,
                                                                       !.vals = <<ValueOf(j)>>]

\* Remove has emptied the tree and an Insert after it has made a new page the root
C29_Witness ==
    /\ fault = "none"
    /\ hist = "mix"
    /\ root_page_id_ > 1
    /\ root_page_id_ = tree_next_page_id_ - 1
    /\ pages[root_page_id_].kind = "leaf"
    /\ GetSize(pages[root_page_id_]) = 1
    /\ Cardinality(StoredKeys) = 1

\* C30: in every state of the tree, a Remove that runs to its end with no
\* assertion failed asks for the write latch of a sibling only while it holds the
\* latch of the node to the left of that sibling under the same parent: never for
\* a left sibling while holding the node to its right.
C30_LatchesLeftBeforeRight ==
    fault = "none" =>
        \A k \in Keys :
            LET r == TreeRemove(pages, root_page_id_, k)
            IN  (r.fault = "none" /\ r.aok) =>
                    \A i \in 1..Len(r.latches) :
                        \E a, b \in 1..Len(r.latches[i].children) :
                            /\ r.latches[i].children[a] = r.latches[i].held
                            /\ r.latches[i].children[b] = r.latches[i].asked
                            /\ a < b

-----------------------------------------------------------------------------
(* Claims on the internal page's search, the scan from a key and slot 0 *)

\* the separators of an internal page, slots 1 .. size - 1, are in ascending order
SeparatorsSorted(p) ==
    \A a, b \in 2..GetSize(p) : a < b => p.keys[a] < p.keys[b]

\* C32: on an internal page with size >= 2 whose keys at slots 1 .. size - 1 are
\* sorted, SearchKeyIndex(key) returns the child index i in [0, size) with
\* key[i] <= key < key[i + 1], key[size] taken as +infinity: 0 when key < key[1],
\* the slot of an equal key, and size - 1 when key is >= every separator.
C32_SearchKeyIndexFindsChild ==
    \A id \in PageIds :
        LET p == pages[id]
        IN  (p.kind = "internal" /\ GetSize(p) >= 2 /\ SeparatorsSorted(p)) =>
                \A key \in Keys :
                    LET i == InternalSearchKeyIndex(p, key)
                    IN  /\ i \in 0..(GetSize(p) - 1)
                        /\ i >= 1 => p.keys[i + 1] <= key
                        /\ i < GetSize(p) - 1 => key < p.keys[i + 2]
                        /\ (\E s \in 1..(GetSize(p) - 1) : p.keys[s + 1] = key)
                               => p.keys[i + 1] = key

\* a full internal page is searched for a key below its first separator, for
\* that separator itself and for a key that no separator exceeds
C32_Witness ==
    \E id \in PageIds :
        LET p == pages[id]
        IN  /\ p.kind = "internal" /\ GetSize(p) = internal_max_size_ /\ SeparatorsSorted(p)
            /\ p.keys[2] > 1
            /\ InternalSearchKeyIndex(p, p.keys[2] - 1) = 0
            /\ InternalSearchKeyIndex(p, p.keys[2]) = 1
            /\ InternalSearchKeyIndex(p, MaxKey) = GetSize(p) - 1

\* for (auto iterator = tree.Begin(key); !iterator.IsEnd(); ++iterator): the keys
\* that *iterator yields, in the order of the loop
RECURSIVE ScanFrom(_, _, _)
ScanFrom(pg, i, n) ==
    IF i.is_invalid_ \/ n > MaxKey THEN <<>>
    ELSE <<IterKey(pg, i)>> \o ScanFrom(pg, IterNext(pg, i), n + 1)

\* the keys that GetValue finds in the tree
FoundKeys == {k \in Keys : GetValue(pages, root_page_id_, k) # <<>>}

\* C33: for a key k that is stored in the tree, iterating from Begin(k) until
\* IsEnd() yields exactly the stored entries whose key is >= k, in ascending
\* order, starting with k itself; the stored entries are those GetValue finds,
\* which are those of the reference map after Inserts of distinct keys and
\* Removes of stored keys.
C33_BeginKeyScansFromKey ==
    fault = "none" =>
        /\ \A k \in FoundKeys :
               ScanFrom(pages, BeginKey(pages, root_page_id_, k), 0)
                   = SortedSeq({j \in FoundKeys : j >= k})
        /\ hist \in {"ins", "rem", "mix"} => FoundKeys = StoredKeys

\* 1..5 are stored in three leaves and the scan from 3 starts inside a leaf or at
\* its first slot and crosses to the next leaves
C33_Witness ==
    /\ fault = "none" /\ hist \in {"ins", "rem", "mix"}
    /\ StoredKeys = 1..5
    /\ ScanFrom(pages, BeginKey(pages, root_page_id_, 3), 0) = <<3, 4, 5>>
    /\ \E k \in StoredKeys : BeginKey(pages, root_page_id_, k).pos_ > 0

\* the pages with key_array_[0] of the internal page page_id set to v
WithSlotZero(pg, page_id, v) == [pg EXCEPT ![page_id].keys[1] = v]

\* the pages without the contents of slot 0 of their internal pages
WithoutSlotZero(pg) ==
    [id \in DOMAIN pg |->
        IF pg[id].kind = "internal" /\ GetSize(pg[id]) > 0
        THEN [pg[id] EXCEPT !.keys[1] = 0] ELSE pg[id]]

\* the outcome of Remove(key): how the call ends, and the tree it leaves
RemoveOutcome(pg, root, key) ==
    LET r == TreeRemove(pg, root, key)
    IN  [ends |-> Outcome(r.aok, r.fault), pages |-> WithoutSlotZero(r.pages), root |-> r.root]

\* the outcome of Insert(key, value): its return value, how the call ends, and the
\* tree it leaves
InsertOutcome(pg, root, next, key) ==
    LET r == TreeInsert(pg, root, next, key, ValueOf(key))
    IN  [ends |-> Outcome(r.aok, "none"), ret |-> r.ret,
         pages |-> WithoutSlotZero(r.pages), root |-> r.root]

\* GetValue, Begin() and Begin(key) do not depend on slot 0 of the internal page
C34_ReadsIgnoreSlotZero ==
    fault = "none" =>
        \A id \in PageIds, v \in Keys :
            pages[id].kind = "internal" =>
                LET alt == WithSlotZero(pages, id, v)
                IN  /\ Begin(alt, root_page_id_) = Begin(pages, root_page_id_)
                    /\ \A k \in Keys :
                          /\ GetValue(alt, root_page_id_, k) = GetValue(pages, root_page_id_, k)
                          /\ BeginKey(alt, root_page_id_, k) = BeginKey(pages, root_page_id_, k)

\* Insert does not depend on slot 0 of the internal page
C34_InsertIgnoresSlotZero ==
    fault = "none" =>
        \A id \in PageIds, v \in Keys :
            pages[id].kind = "internal" =>
                \A k \in Keys :
                    PagesLeftFor(k) =>
                        InsertOutcome(WithSlotZero(pages, id, v), root_page_id_, tree_next_page_id_, k)
                            = InsertOutcome(pages, root_page_id_, tree_next_page_id_, k)

\* C34: on internal pages key_array[0] is a sentinel that is never consulted: the
\* outcome of every Insert, Remove, GetValue and Begin (return value and
\* resulting tree contents and structure) is the same whatever value is stored
\* in slot 0 of any internal page.
C34_SlotZeroNeverConsulted ==
    /\ C34_ReadsIgnoreSlotZero
    /\ C34_InsertIgnoresSlotZero
    /\ fault = "none" =>
           \A id \in PageIds, v \in Keys :
               pages[id].kind = "internal" =>
                   \A k \in Keys :
                       RemoveOutcome(WithSlotZero(pages, id, v), root_page_id_, k)
                           = RemoveOutcome(pages, root_page_id_, k)

-----------------------------------------------------------------------------
(* Claims on the replacer's two lists *)

\* the evictable frames with 1 .. K - 1 accesses (young) or with K and more
\* accesses since they were last evicted or removed
EvictableWith(young) ==
    {f \in DOMAIN access :
        /\ lruk.node_store_[f].is_evictable_
        /\ access[f] # <<>>
        /\ young <=> Len(access[f]) < k_}

\* C35: Evict() chooses its victim in two steps: if some evictable frame has fewer
\* than K recorded accesses since it was last evicted or removed, it returns the
\* one among those whose first access is oldest (FIFO), regardless of later
\* accesses; otherwise it returns, among the evictable frames with at least K
\* accesses, the one with the smallest last-access timestamp.
C35_EvictHistoryThenCache ==
    fault = "none" =>
        LET victim == Evict(lruk).frame_id
        IN  /\ EvictableWith(TRUE) # {} =>
                   /\ victim \in EvictableWith(TRUE)
                   /\ \A g \in EvictableWith(TRUE) : access[victim][1] <= access[g][1]
            /\ (EvictableWith(TRUE) = {} /\ EvictableWith(FALSE) # {}) =>
                   /\ victim \in EvictableWith(FALSE)
                   /\ \A g \in EvictableWith(FALSE) :
                          access[victim][Len(access[victim])] <= access[g][Len(access[g])]

\* how often frame f occurs in a list of the replacer
CountIn(list, f) == Len(SelectSeq(list, LAMBDA x : x = f))

\* C36: after any sequence of replacer calls, every frame that has been accessed
\* since it was last evicted or removed is in exactly one of the two lists: in the
\* history list if and only if its access count is < K and in the cache list if
\* and only if its access count is >= K; the K-th access moves it from history to
\* cache, a first access creates the entry with count 1 in the history list, and
\* an evicted or removed frame is in neither list.
C36_ListsPartitionByCount ==
    fault = "none" =>
        \A f \in DOMAIN access :
            LET n == Len(access[f])
                r == RecordAccess(lruk, f)
            IN  /\ CountIn(lruk.history_list_, f) = (IF n > 0 /\ n < k_ THEN 1 ELSE 0)
                /\ CountIn(lruk.cache_list_, f) = (IF n >= k_ THEN 1 ELSE 0)
                /\ n > 0 => lruk.node_store_[f].k_ = n
                /\ n = 0 => /\ r.node_store_[f].k_ = 1
                            /\ CountIn(r.history_list_, f) = 1
                            /\ CountIn(r.cache_list_, f) = 0
                /\ n = k_ - 1 => /\ r.node_store_[f].k_ = k_
                                 /\ CountIn(r.history_list_, f) = 0
                                 /\ CountIn(r.cache_list_, f) = 1

\* one frame has had its K-th access and is in the cache list, another its first
\* access only, and a third was accessed and then evicted or removed
C36_Witness ==
    /\ fault = "none"
    /\ \E f, g, h \in DOMAIN access :
          /\ Len(access[f]) = k_ /\ CountIn(lruk.cache_list_, f) = 1
          /\ Len(access[g]) = 1 /\ CountIn(lruk.history_list_, g) = 1
          /\ access[h] = <<>> /\ lruk.current_timestamp_ = k_ + 2
          /\ CountIn(lruk.history_list_, h) = 0 /\ CountIn(lruk.cache_list_, h) = 0

-----------------------------------------------------------------------------
(* Claims on the splits of Insert *)

\* the keys of a page from slot first on, as a set, and whether they ascend
KeysFrom(p, first) == {p.keys[i] : i \in (first + 1)..GetSize(p)}

Ascending(p, first) ==
    \A a, b \in (first + 1)..GetSize(p) : a < b => p.keys[a] < p.keys[b]

\* the full, sorted leaves of the tree, each with a key it does not hold
FullLeafAndKey ==
    {<<id, key>> \in PageIds \X Keys :
        /\ pages[id].kind = "leaf" /\ GetSize(pages[id]) = leaf_max_size_
        /\ Ascending(pages[id], 0)
        /\ key \notin KeysFrom(pages[id], 0)}

\* C37: when Insert splits a full leaf holding M sorted keys with a new key not
\* among them, the M + 1 entries are distributed over the old (left) and new
\* (right) leaf with no entry lost or duplicated and each value staying with its
\* key; both leaves are non-empty and sorted, every left key is smaller than
\* every right key, the separator passed to the parent is the right leaf's first
\* key, and the chain is relinked as left.next = new leaf, new.next = the old
\* left.next, wherever the new key falls.
C37_LeafSplitKeepsEntries ==
    \A c \in FullLeafAndKey :
        LET leaf == pages[c[1]]
            key == c[2]
            new_page_id == tree_next_page_id_
            sp == SplitLeafPage([leaf EXCEPT !.next = new_page_id],
                                [LeafInit EXCEPT !.next = leaf.next], key, ValueOf(key))
            both == sp.this.keys \o sp.other.keys
            r == TreeInsert(pages, root_page_id_, tree_next_page_id_, key, ValueOf(key))
            path == LeafSearch(pages, root_page_id_, key)
        IN  /\ sp.aok
            /\ GetSize(sp.this) >= 1 /\ GetSize(sp.other) >= 1
            /\ Len(both) = leaf_max_size_ + 1
            /\ \A a, b \in 1..Len(both) : a < b => both[a] < both[b]
            /\ {both[i] : i \in 1..Len(both)} = KeysFrom(leaf, 0) \union {key}
            /\ \A i \in 1..GetSize(sp.this) : sp.this.vals[i] = ValueOf(sp.this.keys[i])
            /\ \A i \in 1..GetSize(sp.other) : sp.other.vals[i] = ValueOf(sp.other.keys[i])
            /\ sp.this.next = new_page_id /\ sp.other.next = leaf.next
            /\ (fault = "none" /\ PagesLeftFor(key) /\ path[Len(path)] = c[1]) =>
                   /\ r.ret /\ r.aok
                   /\ r.pages[c[1]] = sp.this /\ r.pages[new_page_id] = sp.other
                   /\ \E id \in PageIds :
                          /\ r.pages[id].kind = "internal"
                          /\ \E s \in 1..GetSize(r.pages[id]) :
                                 /\ r.pages[id].vals[s] = new_page_id
                                 /\ r.pages[id].keys[s] = sp.other.keys[1]

\* a full leaf of the tree is split by a key below its keys, by one between them
\* and by one above them, and Insert of one of them splits this leaf
C37_Witness ==
    /\ fault = "none"
    /\ \E id \in PageIds :
          /\ \E lo, mid, hi \in Keys :
                /\ {<<id, lo>>, <<id, mid>>, <<id, hi>>} \subseteq FullLeafAndKey
                /\ lo < pages[id].keys[1]
                /\ pages[id].keys[1] < mid /\ mid < pages[id].keys[2]
                /\ pages[id].keys[2] < hi
          /\ pages[id].next # INVALID_PAGE_ID
          /\ \E key \in Keys :
                /\ <<id, key>> \in FullLeafAndKey /\ PagesLeftFor(key)
                /\ LeafSearch(pages, root_page_id_, key)[Len(LeafSearch(pages, root_page_id_, key))] = id

\* the full internal pages of the tree with sorted separators, each with a key
\* that is none of its separators
FullInternalAndKey ==
    {<<id, key>> \in PageIds \X Keys :
        /\ pages[id].kind = "internal" /\ GetSize(pages[id]) = internal_max_size_
        /\ Ascending(pages[id], 1)
        /\ key \notin KeysFrom(pages[id], 1)}

\* C38: when Insert splits a full internal page with M children on insertion of a
\* new (separator, child) pair, the M + 1 children are distributed over the left
\* and right page in key order with none lost or duplicated and each child
\* keeping its separator; the key returned for promotion is larger than every
\* separator kept at slots >= 1 of the left page and smaller than every separator
\* at slots >= 1 of the right page, and it does not appear among the slot >= 1
\* separators of either page, wherever the new key falls.
C38_InternalSplitKeepsChildren ==
    \A c \in FullInternalAndKey :
        LET p == pages[c[1]]
            key == c[2]
            value == tree_next_page_id_
            sp == SplitInternalPage(p, InternalInit, key, value)
            pos == 1 + Cardinality({i \in 2..GetSize(p) : p.keys[i] < key})
            ks == InsertSeq(p.keys, pos, key)
            vs == InsertSeq(p.vals, pos, value)
            n == GetSize(sp.this)
        IN  /\ sp.aok
            /\ n >= 1 /\ GetSize(sp.other) >= 1
            /\ Len(sp.this.vals) = n /\ Len(sp.other.vals) = GetSize(sp.other)
            /\ sp.this.vals \o sp.other.vals = vs
            /\ \A i \in 2..n : sp.this.keys[i] = ks[i]
            /\ sp.ret = ks[n + 1]
            /\ \A i \in 2..GetSize(sp.other) : sp.other.keys[i] = ks[n + i]
            /\ \A k \in KeysFrom(sp.this, 1) : k < sp.ret
            /\ \A k \in KeysFrom(sp.other, 1) : sp.ret < k
            /\ sp.ret \notin KeysFrom(sp.this, 1) \union KeysFrom(sp.other, 1)

\* a full internal page of the tree is split by a key below its separators, by
\* one between them and by one above them, and Insert of some key splits a full
\* leaf below this page and then the page itself
C38_Witness ==
    /\ fault = "none"
    /\ \E id \in PageIds, lo, mid, hi \in Keys :
          /\ {<<id, lo>>, <<id, mid>>, <<id, hi>>} \subseteq FullInternalAndKey
          /\ lo < pages[id].keys[2]
          /\ pages[id].keys[2] < mid /\ mid < pages[id].keys[3]
          /\ pages[id].keys[3] < hi
          /\ \E key \in Keys :
                LET path == LeafSearch(pages, root_page_id_, key)
                IN  /\ PagesLeftFor(key)
                    /\ Len(path) >= 2 /\ path[Len(path) - 1] = id
                    /\ <<path[Len(path)], key>> \in FullLeafAndKey

-----------------------------------------------------------------------------
(* Claims on the pages Remove empties and on the sibling it chooses *)

\* C39: every page that Remove empties is actually freed: for each merge (leaf or
\* internal, with the right or with the left sibling), for the removal of the
\* last key of a root leaf, and for a root collapse, the DeletePage call on the
\* emptied page returns true, i.e. no guard of the removing thread still pins
\* that page when DeletePage is called, and the page is no longer resident
\* afterwards: once the call has returned, every page that is not free is a
\* node of the tree.
C39_EmptiedPagesFreed ==
    fault = "none" =>
        \A id \in PageIds :
            pages[id].kind # "free" =>
                \E n \in Subtree(pages, root_page_id_, 0) : n.page = id

\* C40: in Remove, whenever a leaf or internal node underflows, the slot index
\* computed for it in its parent by SearchKeyIndex on the node's first key
\* (KeyAt(0)) identifies that node itself: parent.ValueAt(index) is the node's
\* own page id, so the page chosen for borrow or merge is an immediate sibling
\* of the node, after any sequence of Inserts and Removes.
C40_IndexIdentifiesNode ==
    fault = "none" =>
        \A k \in Keys :
            LET r == TreeRemove(pages, root_page_id_, k)
            IN  \A i \in 1..Len(r.latches) :
                    LET a == r.latches[i]
                    IN  /\ a.index \in 0..(Len(a.children) - 1)
                        /\ a.children[a.index + 1] = a.held

\* the same for the leaf that underflows, the first node Remove looks up
C40_LeafIndexIdentifiesLeaf ==
    fault = "none" =>
        \A k \in Keys :
            LET r == TreeRemove(pages, root_page_id_, k)
            IN  Len(r.latches) >= 1 =>
                    /\ r.latches[1].index \in 0..(Len(r.latches[1].children) - 1)
                    /\ r.latches[1].children[r.latches[1].index + 1] = r.latches[1].held

-----------------------------------------------------------------------------
(* The B+Tree under concurrent client threads.  Every ReadPage and WritePage  *)
(* of an operation is one step, which waits until the page's latch can be     *)
(* granted; the guards a thread holds are cc[t].rd (ReadPageGuard) and        *)
(* cc[t].wr (WritePageGuard).  Insert and Remove hold the header page's write *)
(* guard from their first step to their return, so their changes to the pages *)
(* are applied in the step that takes their last latch.                       *)

\* the page id the tests construct the tree with: the first page NewPage() returns
header_page_id_ == 0

\* the client threads use the keys 1..CcMaxKey
CcMaxKey == 3

CcKeys == 1..CcMaxKey

\* the frame's rwlatch_ behind ReadPageGuard and WritePageGuard: a write latch is
\* granted when no guard for the page is alive, a read latch when no write guard
\* is; a thread that holds a guard for the page itself waits like any other
LatchFree(page_id, write) ==
    \A u \in Threads : page_id \notin cc[u].wr /\ (write => page_id \notin cc[u].rd)

\* the levels of the tree
Height == IF root_page_id_ = INVALID_PAGE_ID THEN 0 ELSE Len(LeafSearch(pages, root_page_id_, 1))

\* page ids are left for the Inserts that run and one more: an Insert takes at most
\* one page per level and one for a new root, and each Insert before it adds a level
\* at most
CcPagesLeft ==
    LET n == Cardinality({u \in Threads : cc[u].op = "Insert"})
    IN  tree_next_page_id_ + (n + 1) * (Height + 1) + (n * (n + 1)) \div 2 <= MaxPageId

\* a client thread calls Insert, Remove, GetValue, Begin() or Begin(key); a thread
\* that called Begin goes on with for (...; !iterator.IsEnd(); ++iterator)
CcCall(t, op, key) ==
    /\ fault = "none"
    /\ cc[t].pc = "idle"
    /\ op = "Insert" => CcPagesLeft
    /\ cc' = [cc EXCEPT ![t] = [NoCall EXCEPT !.op = op, !.key = key, !.pc = "header",
                                              !.want = header_page_id_]]
    /\ UNCHANGED <<pages, root_page_id_, tree_next_page_id_, fault>>

\* Insert has its last latch: the rest of the call, and its return
CcInsertReturn(t) ==
    \E r \in {TreeInsert(pages, root_page_id_, tree_next_page_id_, cc[t].key, ValueOf(cc[t].key))} :
        LET f == Outcome(r.aok, "none")
        IN  /\ fault' = f
            /\ pages' = IF f = "none" THEN r.pages ELSE pages
            /\ root_page_id_' = IF f = "none" THEN r.root ELSE root_page_id_
            /\ tree_next_page_id_' = IF f = "none" THEN r.next ELSE tree_next_page_id_
            /\ cc' = [cc EXCEPT ![t] = NoCall]

\* Remove has its last latch: the rest of the call, and its return
CcRemoveReturn(t) ==
    \E r \in {TreeRemove(pages, root_page_id_, cc[t].key)} :
        LET f == Outcome(r.aok, r.fault)
        IN  /\ fault' = f
            /\ pages' = IF f = "none" THEN r.pages ELSE pages
            /\ root_page_id_' = IF f = "none" THEN r.root ELSE root_page_id_
            /\ cc' = [cc EXCEPT ![t] = NoCall]
            /\ UNCHANGED tree_next_page_id_

\* the first step of every operation: the guard for the header page, a
\* WritePageGuard in Insert and Remove and a ReadPageGuard in the others; with no
\* root, Insert makes one and the others return
CcHeader(t) ==
    /\ fault = "none"
    /\ cc[t].pc = "header"
    /\ LatchFree(header_page_id_, cc[t].op \in {"Insert", "Remove"})
    /\ IF root_page_id_ = INVALID_PAGE_ID
       THEN IF cc[t].op = "Insert" THEN CcInsertReturn(t)
            ELSE /\ cc' = [cc EXCEPT ![t] = NoCall]
                 /\ UNCHANGED <<pages, root_page_id_, tree_next_page_id_, fault>>
       ELSE /\ cc' = [cc EXCEPT ![t].pc = "descend", ![t].want = root_page_id_,
                                ![t].wr = IF cc[t].op \in {"Insert", "Remove"}
                                          THEN {header_page_id_} ELSE {},
                                ![t].rd = IF cc[t].op \in {"Insert", "Remove"}
                                          THEN {} ELSE {header_page_id_}]
            /\ UNCHANGED <<pages, root_page_id_, tree_next_page_id_, fault>>

\* LeafSearch of Insert and Remove: WritePage(root_id) and ctx.write_set_.emplace_back(
\* bpm_->WritePage(child)); at the leaf, Remove goes on to the sibling it needs
CcDescendWrite(t) ==
    /\ fault = "none"
    /\ cc[t].pc = "descend"
    /\ cc[t].op \in {"Insert", "Remove"}
    /\ LatchFree(cc[t].want, TRUE)
    /\ LET p == pages[cc[t].want]
           r == TreeRemove(pages, root_page_id_, cc[t].key)
       IN  IF p.kind = "internal"
           THEN /\ cc' = [cc EXCEPT ![t].wr = @ \cup {cc[t].want},
                                    ![t].want = p.vals[InternalSearchKeyIndex(p, cc[t].key) + 1]]
                /\ UNCHANGED <<pages, root_page_id_, tree_next_page_id_, fault>>
           ELSE IF cc[t].op = "Insert" THEN CcInsertReturn(t)
           ELSE IF r.latches = <<>> THEN CcRemoveReturn(t)
           ELSE /\ cc' = [cc EXCEPT ![t].wr = @ \cup {cc[t].want}, ![t].pc = "sibling",
                                    ![t].n = 1, ![t].want = r.latches[1].asked]
                /\ UNCHANGED <<pages, root_page_id_, tree_next_page_id_, fault>>

\* BorrowOrCombineWithSiblingLeafPage and ...InternalPage of Remove:
\* bpm_->WritePage(right_page_id) or bpm_->WritePage(left_page_id) with the guards of
\* the path held; the sibling's guard is dropped when the function returns
CcSibling(t) ==
    /\ fault = "none"
    /\ cc[t].pc = "sibling"
    /\ cc[t].want = INVALID_PAGE_ID \/ LatchFree(cc[t].want, TRUE)
    /\ LET r == TreeRemove(pages, root_page_id_, cc[t].key)
       IN  IF cc[t].n < Len(r.latches)
           THEN /\ cc' = [cc EXCEPT ![t].n = @ + 1, ![t].want = r.latches[cc[t].n + 1].asked]
                /\ UNCHANGED <<pages, root_page_id_, tree_next_page_id_, fault>>
           ELSE CcRemoveReturn(t)

\* GetValue and LeafSearchRead: ReadPage(root_page_id) then guard.Drop() of the
\* header, ctx.read_set_.emplace_back(bpm_->ReadPage(child)) then pop_front() of
\* the parent; GetValue returns at the leaf
CcDescendRead(t) ==
    /\ fault = "none"
    /\ cc[t].pc = "descend"
    /\ cc[t].op = "GetValue"
    /\ LatchFree(cc[t].want, FALSE)
    /\ LET p == pages[cc[t].want]
       IN  cc' = IF p.kind = "internal"
                 THEN [cc EXCEPT ![t].rd = {cc[t].want},
                                 ![t].want = p.vals[InternalSearchKeyIndex(p, cc[t].key) + 1]]
                 ELSE [cc EXCEPT ![t] = NoCall]
    /\ UNCHANGED <<pages, root_page_id_, tree_next_page_id_, fault>>

\* Begin(): guard = bpm_->WritePage(internal_page->ValueAt(0)) down to the leftmost
\* leaf with header_guard alive; the iterator takes the leaf's guard at slot 0
CcDescendBegin(t) ==
    /\ fault = "none"
    /\ cc[t].pc = "descend"
    /\ cc[t].op = "Begin"
    /\ LatchFree(cc[t].want, TRUE)
    /\ LET p == pages[cc[t].want]
       IN  cc' = IF p.kind = "internal"
                 THEN [cc EXCEPT ![t].wr = {cc[t].want}, ![t].want = p.vals[1]]
                 ELSE [cc EXCEPT ![t].pc = "iter", ![t].rd = {}, ![t].wr = {cc[t].want},
                                 ![t].page = cc[t].want, ![t].pos_ = 0,
                                 ![t].want = INVALID_PAGE_ID]
    /\ UNCHANGED <<pages, root_page_id_, tree_next_page_id_, fault>>

\* Begin(key): parent = std::move(cur); cur = bpm_->ReadPage(cur_page_id) down to the
\* leaf for key; there it returns End() when pos is -1, and else drops cur with
\* parent alive
CcDescendBeginKey(t) ==
    /\ fault = "none"
    /\ cc[t].pc = "descend"
    /\ cc[t].op = "BeginKey"
    /\ LatchFree(cc[t].want, FALSE)
    /\ LET p == pages[cc[t].want]
           pos == LeafSearchKeyIndex(p, cc[t].key)
       IN  cc' = IF p.kind = "internal"
                 THEN [cc EXCEPT ![t].rd = {cc[t].want},
                                 ![t].want = p.vals[InternalSearchKeyIndex(p, cc[t].key) + 1]]
                 ELSE IF pos = -1 THEN [cc EXCEPT ![t] = NoCall]
                 ELSE [cc EXCEPT ![t].pc = "upgrade", ![t].pos_ = pos]
    /\ UNCHANGED <<pages, root_page_id_, tree_next_page_id_, fault>>

\* Begin(key): IndexIterator(bpm_->WritePage(cur_page_id), pos, bpm_); parent is
\* dropped at the return
CcUpgrade(t) ==
    /\ fault = "none"
    /\ cc[t].pc = "upgrade"
    /\ LatchFree(cc[t].want, TRUE)
    /\ cc' = [cc EXCEPT ![t].pc = "iter", ![t].rd = {}, ![t].wr = {cc[t].want},
                        ![t].page = cc[t].want, ![t].want = INVALID_PAGE_ID]
    /\ UNCHANGED <<pages, root_page_id_, tree_next_page_id_, fault>>

\* IndexIterator::operator++ in the client's loop: past the last slot of the leaf
\* it asks for read_guard_ = bpm_->ReadPage(next_page_id) with the guards it has
\* alive; write_guard_, which the constructor took, lives until the iterator is
\* destroyed, which the loop does at IsEnd().  A page that is no leaf any more is
\* read as one.
CcIter(t) ==
    /\ cc[t].pc = "iter"
    /\ fault = "none"
    /\ LET i == [NoIter EXCEPT !.is_invalid_ = FALSE, !.page = cc[t].page, !.pos_ = cc[t].pos_]
           n == IterNext(pages, i)
       IN  /\ n.page # cc[t].page /\ ~n.is_invalid_ => LatchFree(n.page, FALSE)
           /\ cc' = IF n.is_invalid_ THEN [cc EXCEPT ![t] = NoCall]
                    ELSE IF n.page # cc[t].page
                    THEN [cc EXCEPT ![t].rd = {n.page}, ![t].page = n.page, ![t].pos_ = 0]
                    ELSE [cc EXCEPT ![t].pos_ = n.pos_]
           /\ fault' = IF ~n.is_invalid_ /\ pages[n.page].kind # "leaf" THEN "ub" ELSE "none"
    /\ UNCHANGED <<pages, root_page_id_, tree_next_page_id_>>

\* the steps of a thread that is in an operation
CcStep(t) ==
    \/ CcHeader(t)
    \/ CcDescendWrite(t)
    \/ CcSibling(t)
    \/ CcDescendRead(t)
    \/ CcDescendBegin(t)
    \/ CcDescendBeginKey(t)
    \/ CcUpgrade(t)
    \/ CcIter(t)

LatchInit ==
    /\ TreeIdle
    /\ ndebug \in BOOLEAN
    /\ fault = "none"
    /\ PoolIdle
    /\ AuxIdle

LatchNext ==
    /\ \/ \E t \in Threads, op \in {"Insert", "Remove", "GetValue", "BeginKey"}, key \in CcKeys :
            CcCall(t, op, key)
       \/ \E t \in Threads : CcCall(t, "Begin", 0)
       \/ \E t \in Threads : CcHeader(t)
       \/ \E t \in Threads : CcDescendWrite(t)
       \/ \E t \in Threads : CcSibling(t)
       \/ \E t \in Threads : CcDescendRead(t)
       \/ \E t \in Threads : CcDescendBegin(t)
       \/ \E t \in Threads : CcDescendBeginKey(t)
       \/ \E t \in Threads : CcUpgrade(t)
       \/ \E t \in Threads : CcIter(t)
    /\ UNCHANGED <<ref, hist, it, ndebug, bpmVars, lruk, access, ds, mtx>>

\* the scheduler is fair to every thread: a thread whose next step is possible again
\* and again takes it (a latch that is free again and again is granted)
SpecLatch == LatchInit /\ [][LatchNext]_vars /\ \A t \in Threads : SF_cc(CcStep(t))

(* Claims on the page latches of concurrent operations *)

\* the latch the next step of the thread asks for: the page and whether it is the
\* write latch; <<INVALID_PAGE_ID, FALSE>> when the step takes no latch
Asks(t) ==
    LET i == [NoIter EXCEPT !.is_invalid_ = FALSE, !.page = cc[t].page, !.pos_ = cc[t].pos_]
    IN  CASE cc[t].pc = "header" -> <<header_page_id_, cc[t].op \in {"Insert", "Remove"}>>
          [] cc[t].pc = "descend" -> <<cc[t].want, cc[t].op \in {"Insert", "Remove", "Begin"}>>
          [] cc[t].pc \in {"sibling", "upgrade"} -> <<cc[t].want, TRUE>>
          [] cc[t].pc = "iter" ->
                IF IterNext(pages, i).is_invalid_ \/ IterNext(pages, i).page = cc[t].page
                THEN <<INVALID_PAGE_ID, FALSE>> ELSE <<IterNext(pages, i).page, FALSE>>
          [] OTHER -> <<INVALID_PAGE_ID, FALSE>>

\* thread u holds a guard that keeps the latch thread t asks for from being granted
Blocks(u, t) ==
    /\ Asks(t)[1] # INVALID_PAGE_ID
    /\ Asks(t)[1] \in cc[u].wr \/ (Asks(t)[2] /\ Asks(t)[1] \in cc[u].rd)

\* every thread of S waits for a latch that a thread of S holds: no thread of S
\* takes a step again, whatever the scheduler does
Deadlocked(S) == S # {} /\ \A t \in S : \E u \in S : Blocks(u, t)

\* C31: concurrent Insert, Remove, GetValue, Begin and operator++ never deadlock:
\* every started operation returns under fair scheduling, so in no reachable state
\* do threads wait for latches that only the waiting threads themselves can release
C31_NoDeadlock == fault = "none" => \A S \in SUBSET Threads : ~Deadlocked(S)

\* the deadlock of an iterator and a Remove of a stored key: the iterator holds a leaf
\* and asks for the next one, whose guard the Remove holds while it asks for the
\* left sibling
C31_IteratorAndRemove ==
    \E t, u \in Threads :
        /\ cc[t].pc = "iter" /\ cc[u].pc = "sibling" /\ cc[u].op = "Remove"
        /\ GetValue(pages, root_page_id_, cc[u].key) # <<>>
        /\ Blocks(t, u) /\ Blocks(u, t)

====
